---- MODULE Spec2Model ----
(***************************************************************************)
(* Notice board core: the lifecycle state machine (NoticeStateMachine) of  *)
(* the backend, as a state machine over its three private collections, the *)
(* wall clock its callers read with `new Date()`, and the value the last   *)
(* call handed back to its caller.                                         *)
(*                                                                         *)
(* Instants are whole days; NoDate stands for an undefined Date.           *)
(***************************************************************************)
EXTENDS Integers, Sequences, FiniteSets, TLC

VARIABLES
    noticeStates,    \* Map<string, NoticeState>: a function on the known ids
    noticeContexts,  \* Map<string, NoticeContext>: a function on the known ids
    stateLog,        \* StateTransition[]: the audit log
    now,             \* the wall clock
    ret,             \* what the last call returned or threw
    driver,          \* the scenario the callers play, and how far they are in it
    calls,           \* the transition() invocations in progress, one per request
    running,         \* the request whose code the event loop is executing
    dispatchQueue,       \* ScheduledNotice[]: the binary heap of pending notices
    activeNotices,       \* Map<string, ScheduledNotice>
    deliveryCheckpoints, \* Map<string, DeliveryCheckpoint[]>, by target id
    timeIntervals,       \* TimeInterval[]
    displayBuffers,      \* Map<string, ScheduledNotice[]>, by channel
    timerWheel,          \* Map<number, ScheduledNotice[]>, by slot
    currentTick,         \* the slot of the wheel's hand
    wallClock,           \* Date.now(), in seconds
    thrown,              \* what the last scheduler call threw, or nothing
    plan,                \* the calls the scheduler's clients make, and how far they are
    timers,              \* the scheduler's cron jobs and its interval timer
    audienceService,     \* the AudienceTargetingService: its maps, bitmaps and filter
    bloomHash,           \* the bit positions the filter's hash functions give each key
    audienceRet,         \* what the last call of the targeting service returned
    marked,              \* the (user, notice) pairs markNoticeSeen was called with
    audienceCalls,       \* the number of calls made to the targeting service
    prismaNotices,       \* the notice table of the database, by id
    handlers,            \* the route handlers in progress, each with its position
    traffic,             \* the requests the clients send, how far they are, their last answer
    validation           \* the table validateFSM is given, and what it reported

\* the lifecycle machine and its callers
fsmVars == <<noticeStates, noticeContexts, stateLog, now, ret, driver>>

\* the invocations of transition(), statement by statement
atomicVars == <<calls, running>>

\* the scheduler's collections
schedulerFields ==
    <<dispatchQueue, activeNotices, deliveryCheckpoints, timeIntervals,
      displayBuffers, timerWheel, currentTick>>

\* the scheduler, its clock and its clients
schedVars == <<schedulerFields, wallClock, thrown, plan, timers>>

\* the targeting service and its callers
audienceVars == <<audienceService, bloomHash, audienceRet, marked, audienceCalls>>

\* the database, the route handlers and their clients
routeVars == <<prismaNotices, handlers, traffic>>

\* the services behind the routes, other than the machine and the scheduler
serviceVars == <<audienceVars, routeVars, validation>>

vars == <<fsmVars, atomicVars, schedVars, serviceVars>>

----------------------------------------------------------------------------
(* Enumerations                                                            *)

DRAFT == "draft"
SUBMITTED == "submitted"
MODERATION_PENDING == "moderation_pending"
APPROVED == "approved"
REJECTED == "rejected"
SCHEDULED == "scheduled"
ACTIVE == "active"
EXPIRED == "expired"
ARCHIVED == "archived"
REINSTATED == "reinstated"

NoticeState ==
    {DRAFT, SUBMITTED, MODERATION_PENDING, APPROVED, REJECTED,
     SCHEDULED, ACTIVE, EXPIRED, ARCHIVED, REINSTATED}

SUBMIT == "submit"
APPROVE == "approve"
REJECT == "reject"
SCHEDULE == "schedule"
ACTIVATE == "activate"
EXPIRE == "expire"
ARCHIVE == "archive"
REINSTATE == "reinstate"
UPDATE == "update"

NoticeEvent ==
    {SUBMIT, APPROVE, REJECT, SCHEDULE, ACTIVATE, EXPIRE, ARCHIVE,
     REINSTATE, UPDATE}

ADMIN == "admin"
MODERATOR == "moderator"
PUBLISHER == "publisher"
USER == "user"

UserRole == {ADMIN, MODERATOR, PUBLISHER, USER}

\* the role strings callers pass: the enum's, and the routes' own 'system'
SYSTEM == "system"
Roles == UserRole \cup {SYSTEM}

----------------------------------------------------------------------------
(* Bounds and input sets                                                   *)

NoDate == -1

\* the ids callers use; any of them may be unknown to the machine
NoticeIds == {"n1", "n2"}

\* the instants the clock visits, in days
Instants == {0, 1, 31}

\* the (visibleFrom, visibleUntil) pairs a creation payload carries
Windows == {<<NoDate, NoDate>>, <<1, 31>>}

\* the number of audit entries arbitrary callers add to a scenario's
MaxFree == 1

\* days after which reinstating an archived notice needs an admin
ArchiveWindowDays == 30

----------------------------------------------------------------------------
(* The transition table                                                    *)

\* the addTransition calls of initializeTransitionTable, in source order
TableEntries ==
    << <<DRAFT, SUBMIT, SUBMITTED>>,
       <<DRAFT, UPDATE, DRAFT>>,
       <<DRAFT, ARCHIVE, ARCHIVED>>,
       <<SUBMITTED, APPROVE, MODERATION_PENDING>>,
       <<SUBMITTED, REJECT, REJECTED>>,
       <<SUBMITTED, UPDATE, DRAFT>>,
       <<MODERATION_PENDING, APPROVE, APPROVED>>,
       <<MODERATION_PENDING, REJECT, REJECTED>>,
       <<APPROVED, SCHEDULE, SCHEDULED>>,
       <<APPROVED, ACTIVATE, ACTIVE>>,
       <<APPROVED, REJECT, REJECTED>>,
       <<SCHEDULED, ACTIVATE, ACTIVE>>,
       <<SCHEDULED, REJECT, REJECTED>>,
       <<ACTIVE, EXPIRE, EXPIRED>>,
       <<ACTIVE, ARCHIVE, ARCHIVED>>,
       <<EXPIRED, ARCHIVE, ARCHIVED>>,
       <<EXPIRED, REINSTATE, REINSTATED>>,
       <<ARCHIVED, REINSTATE, REINSTATED>>,
       <<REINSTATED, APPROVE, APPROVED>>,
       <<REINSTATED, ARCHIVE, ARCHIVED>>,
       <<REJECTED, REINSTATE, REINSTATED>> >>

\* Map.set on the inner map of fromState: a later entry for the same
\* (fromState, event) replaces the earlier one
addTransition(table, fromState, event, toState) ==
    [p \in (DOMAIN table) \cup {<<fromState, event>>} |->
        IF p = <<fromState, event>> THEN toState ELSE table[p]]

RECURSIVE BuildTable(_)
BuildTable(i) ==
    IF i = 0 THEN << >>
    ELSE addTransition(BuildTable(i - 1),
                       TableEntries[i][1], TableEntries[i][2], TableEntries[i][3])

\* variant: a submitted notice may be activated
initializeTransitionTable_ActivatesSubmitted ==
    addTransition(BuildTable(Len(TableEntries)), SUBMITTED, ACTIVATE, ACTIVE)

\* variant: the last addTransition call is missing
initializeTransitionTable_Short == BuildTable(Len(TableEntries) - 1)

initializeTransitionTable == BuildTable(Len(TableEntries))

transitionTable == initializeTransitionTable

\* null is modelled by the string "null"
Null == "null"

\* variant: an event the state does not accept keeps the state
getNextState_Fallback(currentState, event) ==
    IF <<currentState, event>> \in DOMAIN transitionTable
    THEN transitionTable[<<currentState, event>>]
    ELSE currentState

getNextState(currentState, event) ==
    IF ~ \E e \in NoticeEvent : <<currentState, e>> \in DOMAIN transitionTable
    THEN Null
    ELSE IF <<currentState, event>> \in DOMAIN transitionTable
         THEN transitionTable[<<currentState, event>>]
         ELSE Null

----------------------------------------------------------------------------
(* Guards                                                                  *)

NoReason == "none"
ReasonInitial == "Initial state"
ReasonInvalid(fromState, event) ==
    "Invalid transition from " \o fromState \o " with event " \o event
ReasonApprove == "Only moderators can approve notices"
ReasonReject == "Only moderators can reject notices"
ReasonReinstate == "Only admins can reinstate notices"
ReasonSubmit == "Users cannot submit notices directly"
ReasonActivate == "Cannot activate before visible_from time"
ReasonExpire == "Cannot expire before visible_until time"
ReasonArchived30 ==
    "Cannot reinstate notices archived for more than 30 days without admin privileges"

Allowed == [allowed |-> TRUE, reason |-> NoReason]
Denied(reason) == [allowed |-> FALSE, reason |-> reason]

\* variant: a moderator may reinstate
RolePermissions_ModeratorReinstates(event, userRole) ==
    IF event = APPROVE /\ userRole # MODERATOR /\ userRole # ADMIN
    THEN Denied(ReasonApprove)
    ELSE IF event = REJECT /\ userRole # MODERATOR /\ userRole # ADMIN
    THEN Denied(ReasonReject)
    ELSE IF event = REINSTATE /\ userRole # ADMIN /\ userRole # MODERATOR
    THEN Denied(ReasonReinstate)
    ELSE IF event = SUBMIT /\ userRole = USER
    THEN Denied(ReasonSubmit)
    ELSE Allowed

\* the switch on the event: role-based permissions
RolePermissions(event, userRole) ==
    IF event = APPROVE /\ userRole # MODERATOR /\ userRole # ADMIN
    THEN Denied(ReasonApprove)
    ELSE IF event = REJECT /\ userRole # MODERATOR /\ userRole # ADMIN
    THEN Denied(ReasonReject)
    ELSE IF event = REINSTATE /\ userRole # ADMIN
    THEN Denied(ReasonReinstate)
    ELSE IF event = SUBMIT /\ userRole = USER
    THEN Denied(ReasonSubmit)
    ELSE Allowed

\* variant: the instant of visibleFrom or visibleUntil is still too early
TimePredicates_Inclusive(event, timestamp, context) ==
    IF event = ACTIVATE /\ context.visibleFrom # NoDate
          /\ context.visibleFrom >= timestamp
    THEN Denied(ReasonActivate)
    ELSE IF event = EXPIRE /\ context.visibleUntil # NoDate
          /\ context.visibleUntil >= timestamp
    THEN Denied(ReasonExpire)
    ELSE Allowed

\* time-based predicates; an undefined Date is falsy, a Date is not
TimePredicates(event, timestamp, context) ==
    IF event = ACTIVATE /\ context.visibleFrom # NoDate
          /\ context.visibleFrom > timestamp
    THEN Denied(ReasonActivate)
    ELSE IF event = EXPIRE /\ context.visibleUntil # NoDate
          /\ context.visibleUntil > timestamp
    THEN Denied(ReasonExpire)
    ELSE Allowed

\* state-specific guards: daysSinceArchived, in days as the instants are
StateGuards(fromState, toState, input, context) ==
    IF fromState = ARCHIVED /\ toState = REINSTATED
          /\ (input.timestamp - context.lastModifiedAt) > ArchiveWindowDays
          /\ input.userRole # ADMIN
    THEN Denied(ReasonArchived30)
    ELSE Allowed

evaluateGuards(fromState, toState, input, context) ==
    LET role == RolePermissions(input.event, input.userRole)
        time == TimePredicates(input.event, input.timestamp, context)
    IN  IF ~ role.allowed THEN role
        ELSE IF ~ time.allowed THEN time
        ELSE StateGuards(fromState, toState, input, context)

updateContextAfterTransition(context, newState, input) ==
    [context EXCEPT
        !.currentState = newState,
        !.lastModifiedAt = input.timestamp,
        !.visibleFrom = IF newState = SCHEDULED /\ input.scheduledTime # NoDate
                        THEN input.scheduledTime
                        ELSE @]

----------------------------------------------------------------------------
(* The machine as a value, and its operations on it                        *)

Machine == [noticeStates |-> noticeStates,
            noticeContexts |-> noticeContexts,
            stateLog |-> stateLog]

NoReturn == [kind |-> "none"]
Thrown(msg) == [kind |-> "throw", error |-> msg]
Returned(v) == [kind |-> "return", value |-> v]

\* an array is returned
ReturnedArray(v) == [kind |-> "array", value |-> v]

\* variant: the record is put in front of the log
logTransition_Unshift(M, transition) ==
    [M EXCEPT !.stateLog = <<transition>> \o @]

logTransition(M, transition) ==
    [M EXCEPT !.stateLog = Append(@, transition)]

\* Map.set: add or replace the entry of key k
MapSet(m, k, v) == [x \in (DOMAIN m) \cup {k} |-> IF x = k THEN v ELSE m[x]]

initializeNotice(M, noticeId, context, clock) ==
    LET M1 == [M EXCEPT
                 !.noticeStates = MapSet(@, noticeId, DRAFT),
                 !.noticeContexts = MapSet(@, noticeId, context)]
    IN  [machine |->
            logTransition(M1,
                [noticeId |-> noticeId,
                 fromState |-> DRAFT,
                 toState |-> DRAFT,
                 event |-> UPDATE,
                 timestamp |-> clock,
                 userRole |-> SYSTEM,
                 scheduledTime |-> NoDate,
                 isValid |-> TRUE,
                 reason |-> ReasonInitial]),
         ret |-> NoReturn]

\* variant: the refusal stamps the context of the notice
guardRejected_Stamps(M, noticeId, entry) ==
    [machine |->
        logTransition(
            [M EXCEPT !.noticeContexts[noticeId].lastModifiedAt = entry.timestamp],
            entry),
     ret |-> Returned(entry)]

\* the branch of a failed guard: the entry is logged and returned
guardRejected(M, noticeId, entry) ==
    [machine |-> logTransition(M, entry), ret |-> Returned(entry)]

\* transition, once the notice and its context are found
processTransition(M, noticeId, input) ==
    LET currentState == M.noticeStates[noticeId]
        context == M.noticeContexts[noticeId]
        newState == getNextState(currentState, input.event)
        guardResult == evaluateGuards(currentState, newState, input, context)
        rejected(reason) ==
            [noticeId |-> noticeId,
             fromState |-> currentState,
             toState |-> currentState,
             event |-> input.event,
             timestamp |-> input.timestamp,
             userRole |-> input.userRole,
             scheduledTime |-> input.scheduledTime,
             isValid |-> FALSE,
             reason |-> reason]
        accepted ==
            [noticeId |-> noticeId,
             fromState |-> currentState,
             toState |-> newState,
             event |-> input.event,
             timestamp |-> input.timestamp,
             userRole |-> input.userRole,
             scheduledTime |-> input.scheduledTime,
             isValid |-> TRUE,
             reason |-> NoReason]
    IN  IF newState = Null
        THEN [machine |->
                 logTransition(M, rejected(ReasonInvalid(currentState, input.event))),
              ret |-> Returned(rejected(ReasonInvalid(currentState, input.event)))]
        ELSE IF guardResult.allowed
        THEN [machine |->
                logTransition(
                    [M EXCEPT
                       !.noticeStates = MapSet(@, noticeId, newState),
                       !.noticeContexts =
                           MapSet(@, noticeId,
                                  updateContextAfterTransition(context, newState, input))],
                    accepted),
              ret |-> Returned(accepted)]
        ELSE guardRejected(M, noticeId, rejected(guardResult.reason))

NotFound(noticeId) == "Notice " \o noticeId \o " not found"
ContextNotFound(noticeId) == "Notice context " \o noticeId \o " not found"

\* variant: an unknown id is answered with a returned not-found record
transition_ReturnsNotFound(M, noticeId, input) ==
    IF noticeId \notin DOMAIN M.noticeStates
    THEN [machine |-> M,
          ret |-> Returned([noticeId |-> noticeId,
                            fromState |-> Null,
                            toState |-> Null,
                            event |-> input.event,
                            timestamp |-> input.timestamp,
                            userRole |-> input.userRole,
                            scheduledTime |-> input.scheduledTime,
                            isValid |-> FALSE,
                            reason |-> NotFound(noticeId)])]
    ELSE processTransition(M, noticeId, input)

transition(M, noticeId, input) ==
    IF noticeId \notin DOMAIN M.noticeStates
    THEN [machine |-> M, ret |-> Thrown(NotFound(noticeId))]
    ELSE IF noticeId \notin DOMAIN M.noticeContexts
    THEN [machine |-> M, ret |-> Thrown(ContextNotFound(noticeId))]
    ELSE processTransition(M, noticeId, input)

----------------------------------------------------------------------------
(* Queries                                                                 *)

getCurrentState(noticeId) ==
    IF noticeId \in DOMAIN noticeStates THEN noticeStates[noticeId] ELSE Null

\* variant: the table alone decides
canTransition_TableOnly(noticeId, event, userRole) ==
    IF noticeId \notin DOMAIN noticeStates THEN FALSE
    ELSE getNextState(noticeStates[noticeId], event) # Null

canTransition(noticeId, event, userRole) ==
    IF noticeId \notin DOMAIN noticeStates THEN FALSE
    ELSE IF getNextState(noticeStates[noticeId], event) = Null THEN FALSE
    ELSE IF noticeId \notin DOMAIN noticeContexts THEN FALSE
    ELSE evaluateGuards(noticeStates[noticeId],
                        getNextState(noticeStates[noticeId], event),
                        [event |-> event, timestamp |-> now,
                         userRole |-> userRole, scheduledTime |-> NoDate],
                        noticeContexts[noticeId]).allowed

getValidTransitions(noticeId, userRole) ==
    IF noticeId \notin DOMAIN noticeStates THEN {}
    ELSE IF ~ \E e \in NoticeEvent :
                <<noticeStates[noticeId], e>> \in DOMAIN transitionTable
    THEN {}
    ELSE {event \in {e \in NoticeEvent :
                        <<noticeStates[noticeId], e>> \in DOMAIN transitionTable} :
            canTransition(noticeId, event, userRole)}

HistoryOf(log, noticeId) == SelectSeq(log, LAMBDA t : t.noticeId = noticeId)

getTransitionHistory(noticeId) == HistoryOf(stateLog, noticeId)

----------------------------------------------------------------------------
(* transition(), statement by statement                                    *)
(*                                                                         *)
(* Each request handler that calls transition() is a position in its code: *)
(* the lookups, the table, the guards, the writes, the log.  The handlers  *)
(* run on one event loop: a handler that has started keeps the thread      *)
(* until it yields it, and transition() has no await.                      *)

\* the number of requests that call transition()
MaxRequests == 2

Requests == 1 .. MaxRequests

None == 0

\* the inputs the requests pass, stamped with `new Date()`
RequestInputs ==
    {[event |-> e, timestamp |-> now, userRole |-> r, scheduledTime |-> NoDate] :
        e \in {SUBMIT, UPDATE, ARCHIVE, APPROVE, REJECT},
        r \in {PUBLISHER, MODERATOR}}

NoEntry ==
    [noticeId |-> Null, fromState |-> Null, toState |-> Null, event |-> Null,
     timestamp |-> NoDate, userRole |-> Null, scheduledTime |-> NoDate,
     isValid |-> FALSE, reason |-> NoReason]

IdleCall ==
    [pc |-> "idle", noticeId |-> Null, input |-> NoEntry, before |-> << >>,
     currentState |-> Null, newState |-> Null, guardResult |-> Allowed,
     transition |-> NoEntry]

NoCalls == calls = [r \in Requests |-> IdleCall] /\ running = None

\* variant: the handler awaits between the guards and the writes
Yields_AwaitBeforeWrite(pc) == pc = "write"

\* the positions at which transition() gives the thread back before it
\* returns: it has no await, so none
Yields(pc) == FALSE

\* who holds the thread once request r has moved to position pc
Holder(r, pc) == IF pc = "done" \/ Yields(pc) THEN None ELSE r

\* the targeting service as constructed: new Map(), new BloomFilter(...)
NewAudienceService ==
    [userAttributes |-> << >>,
     noticeEligibility |-> << >>,
     invertedIndex |-> << >>,
     departmentBitmaps |-> << >>,
     roleBitmaps |-> << >>,
     locationBitmaps |-> << >>,
     seenNoticesBloom |-> {},
     userIdToNumber |-> << >>,
     numberToUserId |-> << >>,
     nextUserId |-> 1]

\* the answer a client holds before any request is answered
NoAnswer ==
    [route |-> "none", id |-> "none", userId |-> "none", status |-> 0,
     notices |-> << >>]

\* the router as loaded: an empty table and no request
RoutesAtRest ==
    /\ prismaNotices = << >>
    /\ handlers = << >>
    /\ traffic = [scenario |-> 1, pc |-> 0, free |-> 0, fired |-> 0,
                  answer |-> NoAnswer]

\* the table as the constructor built it, validateFSM not called
NoReport == [isValid |-> FALSE, issues |-> << >>]

ValidationAtRest == validation = [entries |-> TableEntries, report |-> NoReport]

\* the services as constructed, with no client calling them
ServicesAtRest ==
    /\ audienceService = NewAudienceService
    /\ bloomHash = << >>
    /\ audienceRet = [kind |-> "none"]
    /\ marked = {}
    /\ audienceCalls = 0
    /\ RoutesAtRest
    /\ ValidationAtRest

\* the reading of the clock when the scheduler is constructed
StartTime == 10

\* initializeScheduler: two cron jobs are scheduled and kept in
\* schedulerJob and cleanupJob; setInterval's handle is not kept
initializeScheduler ==
    [schedulerJob |-> "scheduled", cleanupJob |-> "scheduled", interval |-> "set"]

\* shutdown: the cron jobs are stopped
shutdown(T) ==
    [T EXCEPT !.schedulerJob = "stopped", !.cleanupJob = "stopped"]

\* the scheduler as constructed, with no client calling it
SchedulerAtRest ==
    /\ timers = initializeScheduler
    /\ dispatchQueue = << >>
    /\ activeNotices = << >>
    /\ deliveryCheckpoints = << >>
    /\ timeIntervals = << >>
    /\ displayBuffers = << >>
    /\ timerWheel = << >>
    /\ currentTick = 0
    /\ wallClock = StartTime
    /\ thrown = [kind |-> "none"]
    /\ plan = [scenario |-> 1, pc |-> 0, free |-> 0]

----------------------------------------------------------------------------
(* Callers                                                                 *)
(*                                                                         *)
(* A notice called "n1" is first driven along a path of the table by the   *)
(* calls of one scenario (the create, submit, approve, reject and          *)
(* activate requests of the routes, and the remaining events of the table),*)
(* each call made through initializeNotice and transition above.  When the *)
(* scenario is over, arbitrary callers take over: any id, any event, any   *)
(* role, at the time of the clock.                                         *)

NoWindow == <<NoDate, NoDate>>
Window == <<1, 31>>

SInit(w) ==
    [op |-> "init", event |-> UPDATE, userRole |-> SYSTEM, window |-> w, to |-> 0]
STrans(e, r) ==
    [op |-> "transition", event |-> e, userRole |-> r, window |-> NoWindow, to |-> 0]
STick(t) ==
    [op |-> "tick", event |-> UPDATE, userRole |-> SYSTEM, window |-> NoWindow, to |-> t]

ToApproved(w) ==
    << SInit(w), STrans(SUBMIT, PUBLISHER), STrans(APPROVE, MODERATOR),
       STrans(APPROVE, MODERATOR) >>

Scenarios ==
    << << >>,
       << SInit(NoWindow), STrans(SUBMIT, PUBLISHER) >>,
       << SInit(NoWindow), STrans(SUBMIT, PUBLISHER), STrans(APPROVE, MODERATOR) >>,
       ToApproved(NoWindow),
       ToApproved(Window),
       ToApproved(NoWindow) \o << STrans(SCHEDULE, ADMIN) >>,
       ToApproved(Window) \o << STrans(SCHEDULE, ADMIN) >>,
       ToApproved(NoWindow) \o << STrans(ACTIVATE, ADMIN) >>,
       ToApproved(Window) \o << STick(1), STrans(ACTIVATE, ADMIN) >>,
       ToApproved(NoWindow) \o << STrans(ACTIVATE, ADMIN), STrans(EXPIRE, ADMIN) >>,
       ToApproved(Window) \o << STick(1), STrans(ACTIVATE, ADMIN), STick(31),
                                STrans(EXPIRE, ADMIN) >>,
       << SInit(NoWindow), STrans(ARCHIVE, PUBLISHER) >>,
       << SInit(NoWindow), STrans(SUBMIT, PUBLISHER), STrans(REJECT, MODERATOR) >>,
       << SInit(NoWindow), STrans(ARCHIVE, PUBLISHER), STrans(REINSTATE, ADMIN) >>,
       \* activate refused before visibleFrom, from APPROVED and from SCHEDULED
       ToApproved(Window) \o << STrans(ACTIVATE, ADMIN) >>,
       ToApproved(Window) \o << STrans(SCHEDULE, SYSTEM), STrans(ACTIVATE, SYSTEM) >>,
       \* expire refused before visibleUntil
       ToApproved(Window) \o << STick(1), STrans(ACTIVATE, ADMIN), STrans(EXPIRE, SYSTEM) >>,
       \* reinstate by a moderator, 31 days after the notice was archived
       << SInit(NoWindow), STrans(ARCHIVE, PUBLISHER), STick(31),
          STrans(REINSTATE, MODERATOR) >> >>

Script == Scenarios[driver.scenario]

\* the log entries the scenario's own calls write
ScriptLogLen == Len(SelectSeq(Script, LAMBDA st : st.op # "tick"))

ScenarioOver == driver.pc = Len(Script)

\* arbitrary callers write at most MaxFree entries after the scenario
FreeCall == ScenarioOver /\ Len(stateLog) < ScriptLogLen + MaxFree

----------------------------------------------------------------------------
(* Actions                                                                 *)

Apply(result) ==
    /\ noticeStates' = result.machine.noticeStates
    /\ noticeContexts' = result.machine.noticeContexts
    /\ stateLog' = result.machine.stateLog
    /\ ret' = result.ret

NewContext(noticeId, w) ==
    [id |-> noticeId,
     currentState |-> DRAFT,
     visibleFrom |-> w[1],
     visibleUntil |-> w[2],
     lastModifiedAt |-> now]

Input(event, userRole, scheduledTime) ==
    [event |-> event, timestamp |-> now,
     userRole |-> userRole, scheduledTime |-> scheduledTime]

\* the next call of the scenario
Drive ==
    /\ ~ ScenarioOver
    /\ LET st == Script[driver.pc + 1]
       IN  /\ st.op = "init" =>
                /\ Apply(initializeNotice(Machine, "n1", NewContext("n1", st.window), now))
                /\ now' = now
           /\ st.op = "transition" =>
                /\ Apply(transition(Machine, "n1", Input(st.event, st.userRole, NoDate)))
                /\ now' = now
           /\ st.op = "tick" =>
                /\ now' = st.to
                /\ UNCHANGED <<noticeStates, noticeContexts, stateLog, ret>>
    /\ driver' = [driver EXCEPT !.pc = @ + 1]
    /\ UNCHANGED <<atomicVars, schedVars, serviceVars>>

\* POST / : the route builds the context of a new notice and registers it
InitializeNotice ==
    /\ FreeCall
    /\ \E noticeId \in NoticeIds, w \in Windows :
          Apply(initializeNotice(Machine, noticeId, NewContext(noticeId, w), now))
    /\ UNCHANGED <<now, driver>>
    /\ UNCHANGED <<atomicVars, schedVars, serviceVars>>

\* the scheduledTime a caller puts in the metadata of a schedule event
ScheduledTimes(event) == IF event = SCHEDULE THEN {NoDate} \cup Instants ELSE {NoDate}

\* the inputs a caller may pass at time t
InputsAt(t) ==
    {[event |-> x[1], timestamp |-> t, userRole |-> x[2], scheduledTime |-> x[3]] :
        x \in {y \in NoticeEvent \X Roles \X ({NoDate} \cup Instants) :
                  y[3] \in ScheduledTimes(y[1])}}

\* a caller passes an event with its role and `new Date()`
Transition ==
    /\ FreeCall
    /\ \E noticeId \in NoticeIds, input \in InputsAt(now) :
            Apply(transition(Machine, noticeId, input))
    /\ UNCHANGED <<now, driver>>
    /\ UNCHANGED <<atomicVars, schedVars, serviceVars>>

\* time passes
Tick ==
    /\ ScenarioOver
    /\ \E t \in Instants : t > now /\ now' = t
    /\ UNCHANGED <<noticeStates, noticeContexts, stateLog, ret, driver>>
    /\ UNCHANGED <<atomicVars, schedVars, serviceVars>>

Init ==
    /\ noticeStates = << >>
    /\ noticeContexts = << >>
    /\ stateLog = << >>
    /\ now = 0
    /\ ret = NoReturn
    /\ driver \in [scenario : 1 .. Len(Scenarios), pc : {0}]
    /\ NoCalls
    /\ ServicesAtRest
    /\ SchedulerAtRest

Next == Drive \/ InitializeNotice \/ Transition \/ Tick

Spec == Init /\ [][Next]_vars

----------------------------------------------------------------------------
(* The requests, statement by statement                                    *)

\* the record of a refused transition
Rejected(noticeId, currentState, input, reason) ==
    [noticeId |-> noticeId,
     fromState |-> currentState,
     toState |-> currentState,
     event |-> input.event,
     timestamp |-> input.timestamp,
     userRole |-> input.userRole,
     scheduledTime |-> input.scheduledTime,
     isValid |-> FALSE,
     reason |-> reason]

\* the record of a valid transition
Accepted(noticeId, currentState, newState, input) ==
    [noticeId |-> noticeId,
     fromState |-> currentState,
     toState |-> newState,
     event |-> input.event,
     timestamp |-> input.timestamp,
     userRole |-> input.userRole,
     scheduledTime |-> input.scheduledTime,
     isValid |-> TRUE,
     reason |-> NoReason]

\* request r may execute its next statement
MayRun(r) == running = r \/ (running = None /\ calls[r].pc \notin {"idle", "done"})

\* request r moves to position pc with the changes c of its locals
Goto(r, pc, c) ==
    /\ calls' = [calls EXCEPT ![r] = [c EXCEPT !.pc = pc]]
    /\ running' = Holder(r, pc)

\* POST / : a notice with a fresh id is registered
RequestCreate ==
    /\ running = None
    /\ \E noticeId \in NoticeIds \ DOMAIN noticeStates :
          Apply(initializeNotice(Machine, noticeId, NewContext(noticeId, NoWindow), now))
    /\ UNCHANGED <<now, driver, atomicVars, schedVars, serviceVars>>

\* a request handler is dispatched and calls transition()
CallTransition(r) ==
    /\ running = None
    /\ calls[r].pc = "idle"
    /\ \E noticeId \in NoticeIds, input \in RequestInputs :
          Goto(r, "lookup",
               [calls[r] EXCEPT !.noticeId = noticeId, !.input = input,
                                !.before = Machine])
    /\ UNCHANGED <<fsmVars, schedVars, serviceVars>>

\* const currentState = this.noticeStates.get(noticeId), and the context
Lookup(r) ==
    /\ MayRun(r)
    /\ calls[r].pc = "lookup"
    /\ IF calls[r].noticeId \notin DOMAIN noticeStates
       THEN /\ Goto(r, "done", calls[r])
            /\ ret' = Thrown(NotFound(calls[r].noticeId))
       ELSE IF calls[r].noticeId \notin DOMAIN noticeContexts
       THEN /\ Goto(r, "done", calls[r])
            /\ ret' = Thrown(ContextNotFound(calls[r].noticeId))
       ELSE /\ Goto(r, "table",
                    [calls[r] EXCEPT !.currentState = noticeStates[calls[r].noticeId]])
            /\ ret' = ret
    /\ UNCHANGED <<noticeStates, noticeContexts, stateLog, now, driver, schedVars, serviceVars>>

\* const newState = this.getNextState(currentState, input.event)
LookupTable(r) ==
    /\ MayRun(r)
    /\ calls[r].pc = "table"
    /\ LET c == calls[r]
           newState == getNextState(c.currentState, c.input.event)
       IN  IF newState = Null
           THEN Goto(r, "log",
                     [c EXCEPT !.newState = newState,
                               !.transition =
                                   Rejected(c.noticeId, c.currentState, c.input,
                                            ReasonInvalid(c.currentState, c.input.event))])
           ELSE Goto(r, "guards", [c EXCEPT !.newState = newState])
    /\ UNCHANGED <<fsmVars, schedVars, serviceVars>>

\* const guardResult = this.evaluateGuards(...): the context is the object
\* the map holds
EvaluateGuards(r) ==
    /\ MayRun(r)
    /\ calls[r].pc = "guards"
    /\ LET c == calls[r]
           guardResult == evaluateGuards(c.currentState, c.newState, c.input,
                                         noticeContexts[c.noticeId])
       IN  IF guardResult.allowed
           THEN Goto(r, "write", [c EXCEPT !.guardResult = guardResult])
           ELSE Goto(r, "log",
                     [c EXCEPT !.guardResult = guardResult,
                               !.transition =
                                   Rejected(c.noticeId, c.currentState, c.input,
                                            guardResult.reason)])
    /\ UNCHANGED <<fsmVars, schedVars, serviceVars>>

\* this.noticeStates.set(noticeId, newState), and the context's update
WriteState(r) ==
    /\ MayRun(r)
    /\ calls[r].pc = "write"
    /\ LET c == calls[r]
       IN  /\ noticeStates' = MapSet(noticeStates, c.noticeId, c.newState)
           /\ noticeContexts' =
                 MapSet(noticeContexts, c.noticeId,
                        updateContextAfterTransition(noticeContexts[c.noticeId],
                                                     c.newState, c.input))
           /\ Goto(r, "log",
                   [c EXCEPT !.transition =
                                Accepted(c.noticeId, c.currentState, c.newState, c.input)])
    /\ UNCHANGED <<stateLog, now, ret, driver, schedVars, serviceVars>>

\* this.logTransition(transition); return transition
LogAndReturn(r) ==
    /\ MayRun(r)
    /\ calls[r].pc = "log"
    /\ stateLog' = logTransition(Machine, calls[r].transition).stateLog
    /\ ret' = Returned(calls[r].transition)
    /\ Goto(r, "done", calls[r])
    /\ UNCHANGED <<noticeStates, noticeContexts, now, driver, schedVars, serviceVars>>

InitAtomic ==
    /\ noticeStates = << >>
    /\ noticeContexts = << >>
    /\ stateLog = << >>
    /\ now = 0
    /\ ret = NoReturn
    /\ driver = [scenario |-> 1, pc |-> 0]
    /\ NoCalls
    /\ ServicesAtRest
    /\ SchedulerAtRest

NextAtomic ==
    \/ RequestCreate
    \/ \E r \in Requests :
          \/ CallTransition(r)
          \/ Lookup(r)
          \/ LookupTable(r)
          \/ EvaluateGuards(r)
          \/ WriteState(r)
          \/ LogAndReturn(r)

SpecAtomic == InitAtomic /\ [][NextAtomic]_vars

----------------------------------------------------------------------------
(* The scheduler (NoticeScheduler): values and pure operations             *)
(*                                                                         *)
(* Scheduler instants are whole seconds.  A scheduler value is the record  *)
(* of the object's collections; an operation maps a scheduler value, its   *)
(* arguments and the reading of the clock to the scheduler value after it. *)

\* enum NoticePriority
EMERGENCY == 0
URGENT == 1
HIGH == 2
NORMAL == 3
LOW == 4

NoticePriority == {EMERGENCY, URGENT, HIGH, NORMAL, LOW}

\* the capacity of a display buffer
bufferSize == 100

\* the slots of the timing wheel: one hour of seconds
WheelSlots == 3600

\* the attempts after which a failed delivery is not retried
RetryLimit == 3

\* the delay of the first retry, and the unit of the backoff, in seconds
FirstRetryDelay == 300
BackoffUnit == 60

\* the history of intervals the cleanup keeps, in seconds
HistorySeconds == 86400

\* a ScheduledNotice, with the fields the scheduler reads
ScheduledNotice(noticeId, priority, visibleFrom, visibleUntil, targetAudience, channels, maxRetries) ==
    [noticeId |-> noticeId,
     priority |-> priority,
     visibleFrom |-> visibleFrom,
     visibleUntil |-> visibleUntil,
     targetAudience |-> targetAudience,
     channels |-> channels,
     maxRetries |-> maxRetries]

\* the remainder of JavaScript's %: it has the sign of the dividend
JsRem(a, n) == IF a >= 0 THEN a % n ELSE 0 - ((0 - a) % n)

comparePriority(a, b) ==
    IF a.priority # b.priority
    THEN a.priority - b.priority
    ELSE a.visibleFrom - b.visibleFrom

\* Math.floor((index - 1) / 2), for index > 0
parentIndex(index) == (index - 1) \div 2

\* the element at the 0-based index of a JavaScript array
At(queue, index) == queue[index + 1]

\* the array with the elements at the 0-based indices i and j exchanged
Swap(queue, i, j) ==
    [queue EXCEPT ![i + 1] = queue[j + 1], ![j + 1] = queue[i + 1]]

RECURSIVE heapifyUp(_, _)
heapifyUp(queue, index) ==
    IF index = 0 THEN queue
    ELSE IF comparePriority(At(queue, index), At(queue, parentIndex(index))) < 0
    THEN heapifyUp(Swap(queue, index, parentIndex(index)), parentIndex(index))
    ELSE queue

RECURSIVE heapifyDown(_, _)
heapifyDown(queue, index) ==
    LET leftChild == 2 * index + 1
        rightChild == 2 * index + 2
        afterLeft ==
            IF leftChild < Len(queue)
                  /\ comparePriority(At(queue, leftChild), At(queue, index)) < 0
            THEN leftChild ELSE index
        smallest ==
            IF rightChild < Len(queue)
                  /\ comparePriority(At(queue, rightChild), At(queue, afterLeft)) < 0
            THEN rightChild ELSE afterLeft
    IN  IF smallest # index
        THEN heapifyDown(Swap(queue, index, smallest), smallest)
        ELSE queue

insertIntoPriorityQueue(queue, notice) ==
    heapifyUp(Append(queue, notice), Len(queue))

\* the array without its last element
Pop(queue) == SubSeq(queue, 1, Len(queue) - 1)

\* getNextNotice: the notice it returns (Null for an empty queue) and the
\* queue it leaves
getNextNotice(queue) ==
    IF Len(queue) = 0 THEN [notice |-> Null, queue |-> queue]
    ELSE [notice |-> queue[1],
          queue |-> IF Len(Pop(queue)) > 0
                    THEN heapifyDown([Pop(queue) EXCEPT ![1] = queue[Len(queue)]], 0)
                    ELSE Pop(queue)]

\* findIndex: the first 0-based index of an entry with the id, or -1
findIndex(queue, noticeId) ==
    IF \E i \in 1 .. Len(queue) : queue[i].noticeId = noticeId
    THEN (CHOOSE i \in 1 .. Len(queue) :
              /\ queue[i].noticeId = noticeId
              /\ \A j \in 1 .. (i - 1) : queue[j].noticeId # noticeId) - 1
    ELSE 0 - 1

removeFromQueue(queue, notice) ==
    LET index == findIndex(queue, notice.noticeId)
    IN  IF index # 0 - 1
        THEN IF index < Len(Pop(queue))
             THEN heapifyDown([Pop(queue) EXCEPT ![index + 1] = queue[Len(queue)]],
                              index)
             ELSE Pop(queue)
        ELSE queue

\* Map.get(k) || [] : the array of key k, empty when the map has no such key
GetOrEmpty(m, k) == IF k \in DOMAIN m THEN m[k] ELSE << >>

\* Map.delete
MapDelete(m, k) == [x \in (DOMAIN m) \ {k} |-> m[x]]

\* the scheduler after construction
NewScheduler ==
    [dispatchQueue |-> << >>,
     activeNotices |-> << >>,
     deliveryCheckpoints |-> << >>,
     timeIntervals |-> << >>,
     displayBuffers |-> << >>,
     timerWheel |-> << >>,
     currentTick |-> 0]

createDeliveryCheckpoint(S, targetId, notice, clock) ==
    LET checkpoint == [targetId |-> targetId,
                       noticeVersionId |-> notice.noticeId,
                       status |-> "pending",
                       lastAttemptAt |-> clock,
                       attempts |-> 0,
                       nextRetryAt |-> clock + FirstRetryDelay]
    IN  [S EXCEPT !.deliveryCheckpoints =
            MapSet(@, targetId, Append(GetOrEmpty(@, targetId), checkpoint))]

\* variant: the buffer is trimmed at its tail
RECURSIVE shiftWhileOver_Pops(_)
shiftWhileOver_Pops(buffer) ==
    IF Len(buffer) > bufferSize
    THEN shiftWhileOver_Pops(SubSeq(buffer, 1, Len(buffer) - 1))
    ELSE buffer

\* while (buffer.length > this.bufferSize) buffer.shift()
RECURSIVE shiftWhileOver(_)
shiftWhileOver(buffer) ==
    IF Len(buffer) > bufferSize THEN shiftWhileOver(Tail(buffer)) ELSE buffer

addToDisplayBuffer(S, displayId, notice) ==
    LET buffer == GetOrEmpty(S.displayBuffers, displayId)
        added == IF notice.priority = EMERGENCY
                 THEN <<notice>> \o buffer
                 ELSE Append(buffer, notice)
    IN  [S EXCEPT !.displayBuffers = MapSet(@, displayId, shiftWhileOver(added))]

\* notice.targetAudience.forEach, from the i-th target on
RECURSIVE createCheckpointsFrom(_, _, _, _)
createCheckpointsFrom(S, notice, i, clock) ==
    IF i > Len(notice.targetAudience) THEN S
    ELSE createCheckpointsFrom(
            createDeliveryCheckpoint(S, notice.targetAudience[i], notice, clock),
            notice, i + 1, clock)

\* notice.channels.forEach, from the i-th channel on
RECURSIVE addToBuffersFrom(_, _, _)
addToBuffersFrom(S, notice, i) ==
    IF i > Len(notice.channels) THEN S
    ELSE addToBuffersFrom(addToDisplayBuffer(S, notice.channels[i], notice),
                          notice, i + 1)

activateNotice(S, notice, clock) ==
    addToBuffersFrom(
        createCheckpointsFrom(
            [S EXCEPT !.activeNotices = MapSet(@, notice.noticeId, notice)],
            notice, 1, clock),
        notice, 1)

addToTimingWheel(S, notice, clock) ==
    LET secondsUntilVisible == notice.visibleFrom - clock
        wheelSlot == JsRem(S.currentTick + secondsUntilVisible, WheelSlots)
    IN  [S EXCEPT !.timerWheel =
            MapSet(@, wheelSlot, Append(GetOrEmpty(@, wheelSlot), notice))]

scheduleNotice(S, notice, clock) ==
    LET S1 == [S EXCEPT !.dispatchQueue = insertIntoPriorityQueue(@, notice)]
        S2 == addToTimingWheel(S1, notice, clock)
    IN  [S2 EXCEPT !.timeIntervals =
            Append(@, [start |-> notice.visibleFrom,
                       end |-> notice.visibleUntil,
                       noticeId |-> notice.noticeId,
                       isBlackout |-> FALSE])]

OnlyEmergency == "Only emergency notices can preempt"

\* variant: the notice is put in front of the queue before the priority is
\* looked at
preemptWithEmergency_UnshiftsFirst(S, emergencyNotice, clock) ==
    IF emergencyNotice.priority # EMERGENCY
    THEN [scheduler |-> [S EXCEPT !.dispatchQueue = <<emergencyNotice>> \o @],
          ret |-> Thrown(OnlyEmergency)]
    ELSE [scheduler |->
             activateNotice(
                 [S EXCEPT !.dispatchQueue = <<emergencyNotice>> \o @],
                 emergencyNotice, clock),
          ret |-> NoReturn]

\* preemptWithEmergency: the scheduler it leaves and what it throws
preemptWithEmergency(S, emergencyNotice, clock) ==
    IF emergencyNotice.priority # EMERGENCY
    THEN [scheduler |-> S, ret |-> Thrown(OnlyEmergency)]
    ELSE [scheduler |->
             activateNotice(
                 [S EXCEPT !.dispatchQueue = <<emergencyNotice>> \o @],
                 emergencyNotice, clock),
          ret |-> NoReturn]

\* notices.forEach of processTimerWheel, from the i-th notice of the slot on
RECURSIVE activateDueFrom(_, _, _, _)
activateDueFrom(S, notices, i, clock) ==
    IF i > Len(notices) THEN S
    ELSE activateDueFrom(
            IF notices[i].visibleFrom <= clock
            THEN activateNotice(S, notices[i], clock)
            ELSE S,
            notices, i + 1, clock)

processTimerWheel(S, clock) ==
    LET tick == (S.currentTick + 1) % WheelSlots
        S1 == [S EXCEPT !.currentTick = tick]
    IN  IF tick \in DOMAIN S1.timerWheel
        THEN [activateDueFrom(S1, S1.timerWheel[tick], 1, clock)
                 EXCEPT !.timerWheel = MapDelete(@, tick)]
        ELSE S1

\* toActivate.forEach of processScheduledNotices, from the i-th on
RECURSIVE activateAndRemoveFrom(_, _, _, _)
activateAndRemoveFrom(S, toActivate, i, clock) ==
    IF i > Len(toActivate) THEN S
    ELSE activateAndRemoveFrom(
            [activateNotice(S, toActivate[i], clock)
                EXCEPT !.dispatchQueue = removeFromQueue(@, toActivate[i])],
            toActivate, i + 1, clock)

processScheduledNotices(S, clock) ==
    activateAndRemoveFrom(
        S,
        SelectSeq(S.dispatchQueue,
                  LAMBDA n : n.visibleFrom <= clock /\ n.visibleUntil > clock),
        1, clock)

DeliveryStatus == {"pending", "delivered", "failed", "expired"}

\* checkpoints.find: the first index of a checkpoint of the notice, or 0
findCheckpoint(checkpoints, noticeId) ==
    IF \E i \in 1 .. Len(checkpoints) : checkpoints[i].noticeVersionId = noticeId
    THEN CHOOSE i \in 1 .. Len(checkpoints) :
            /\ checkpoints[i].noticeVersionId = noticeId
            /\ \A j \in 1 .. (i - 1) : checkpoints[j].noticeVersionId # noticeId
    ELSE 0

\* variant: the delay grows by one unit with each attempt
reportStatus_Linear(checkpoint, status, clock) ==
    LET stamped == [checkpoint EXCEPT !.status = status, !.lastAttemptAt = clock]
    IN  IF status = "failed" /\ checkpoint.attempts < RetryLimit
        THEN [stamped EXCEPT
                 !.nextRetryAt = clock + (checkpoint.attempts + 1) * BackoffUnit,
                 !.attempts = @ + 1]
        ELSE stamped

\* the checkpoint after a report of the status
reportStatus(checkpoint, status, clock) ==
    LET stamped == [checkpoint EXCEPT !.status = status, !.lastAttemptAt = clock]
    IN  IF status = "failed" /\ checkpoint.attempts < RetryLimit
        THEN [stamped EXCEPT
                 !.nextRetryAt = clock + (2 ^ checkpoint.attempts) * BackoffUnit,
                 !.attempts = @ + 1]
        ELSE stamped

updateDeliveryStatus(S, targetId, noticeId, status, clock) ==
    IF targetId \notin DOMAIN S.deliveryCheckpoints THEN S
    ELSE LET i == findCheckpoint(S.deliveryCheckpoints[targetId], noticeId)
         IN  IF i = 0 THEN S
             ELSE [S EXCEPT !.deliveryCheckpoints[targetId][i] =
                      reportStatus(@, status, clock)]

\* getRetriesNeeded: the (targetId, noticeId) pairs of the array it returns
getRetriesNeeded(S, clock) ==
    UNION {{<<targetId, S.deliveryCheckpoints[targetId][k].noticeVersionId>> :
               k \in {i \in 1 .. Len(S.deliveryCheckpoints[targetId]) :
                         LET checkpoint == S.deliveryCheckpoints[targetId][i]
                         IN  /\ checkpoint.status = "failed"
                             /\ checkpoint.nextRetryAt <= clock
                             /\ checkpoint.attempts < RetryLimit}} :
           targetId \in DOMAIN S.deliveryCheckpoints}

addBlackoutPeriod(S, start, end, clock) ==
    [S EXCEPT !.timeIntervals =
        Append(@, [start |-> start,
                   end |-> end,
                   noticeId |-> "blackout-" \o ToString(clock),
                   isBlackout |-> TRUE])]

isBlackoutPeriod(S, start, end) ==
    \E i \in 1 .. Len(S.timeIntervals) :
        /\ S.timeIntervals[i].isBlackout
        /\ S.timeIntervals[i].start < end
        /\ S.timeIntervals[i].end > start

findOverlappingNotices(S, start, end) ==
    SelectSeq(S.timeIntervals,
              LAMBDA interval : interval.start < end /\ interval.end > start)

\* variant: what ends at the time of the cleanup is kept
cleanupExpiredNotices_KeepsBoundary(S, clock) ==
    [S EXCEPT
        !.activeNotices =
            [id \in {x \in DOMAIN @ : ~ (@[x].visibleUntil < clock)} |-> @[id]],
        !.timeIntervals =
            SelectSeq(@, LAMBDA interval : interval.end >= clock - HistorySeconds),
        !.displayBuffers =
            [displayId \in DOMAIN @ |->
                SelectSeq(@[displayId], LAMBDA notice : notice.visibleUntil >= clock)]]

cleanupExpiredNotices(S, clock) ==
    [S EXCEPT
        !.activeNotices =
            [id \in {x \in DOMAIN @ : ~ (@[x].visibleUntil <= clock)} |-> @[id]],
        !.timeIntervals =
            SelectSeq(@, LAMBDA interval : interval.end > clock - HistorySeconds),
        !.displayBuffers =
            [displayId \in DOMAIN @ |->
                SelectSeq(@[displayId], LAMBDA notice : notice.visibleUntil > clock)]]

\* variant: the buffer is returned as it is
getDisplayNotices_Unfiltered(S, displayId, clock) ==
    GetOrEmpty(S.displayBuffers, displayId)

getDisplayNotices(S, displayId, clock) ==
    SelectSeq(GetOrEmpty(S.displayBuffers, displayId),
              LAMBDA notice : notice.visibleFrom <= clock /\ notice.visibleUntil > clock)

----------------------------------------------------------------------------
(* The scheduler's clients                                                 *)
(*                                                                         *)
(* The clients first make the calls of one plan (the approve route's       *)
(* scheduleNotice, the emergency route's preemptWithEmergency, the timers' *)
(* ticks, scans and cleanups, delivery reports), then arbitrary calls.     *)

\* the number of arbitrary calls after a plan
MaxSchedFree == 2

Scheduler ==
    [dispatchQueue |-> dispatchQueue,
     activeNotices |-> activeNotices,
     deliveryCheckpoints |-> deliveryCheckpoints,
     timeIntervals |-> timeIntervals,
     displayBuffers |-> displayBuffers,
     timerWheel |-> timerWheel,
     currentTick |-> currentTick]

\* the notices the clients pass.  Times are absolute seconds; the scheduler
\* is constructed at StartTime.
\* a normal notice, visible from the start, as the approve route builds it
NoticeA == ScheduledNotice("a", NORMAL, 10, 100, <<"u1">>, <<"web">>, 3)
\* an emergency, as the emergency route builds it
NoticeE == ScheduledNotice("e", EMERGENCY, 10, 7210, <<"u1", "u2">>,
                           <<"web", "display">>, 5)
\* a notice that becomes visible two seconds after the start, with a
\* smaller number of retries
NoticeF == ScheduledNotice("f", HIGH, 12, 100, <<"u1">>, <<"web">>, 2)
\* a notice whose window began after the start and is over by second 12
NoticeX == ScheduledNotice("x", NORMAL, 11, 12, <<"u1">>, <<"web">>, 3)
\* a notice without audience, for filling a channel
Filler == ScheduledNotice("w", NORMAL, 10, 100, << >>, <<"web">>, 3)
\* seven notices in the order of the queue: only the fifth is visible at
\* the start
Ranked(k) ==
    ScheduledNotice(<<"h1", "h2", "h3", "h4", "h5", "h6", "h7">>[k],
                    <<EMERGENCY, URGENT, HIGH, HIGH, NORMAL, NORMAL, LOW>>[k],
                    <<50, 50, 50, 60, 5, 50, 50>>[k],
                    100, << >>, <<"web">>, 3)

NoNotice == ScheduledNotice(Null, LOW, 0, 0, << >>, << >>, 0)

\* a call of a client, or a firing of a timer
Step(op, notice, targetId, status, start, end) ==
    [op |-> op, notice |-> notice, targetId |-> targetId, status |-> status,
     start |-> start, end |-> end]

DoSchedule(notice) == Step("schedule", notice, Null, "pending", 0, 0)
DoPreempt(notice) == Step("preempt", notice, Null, "pending", 0, 0)
DoNext == Step("next", NoNotice, Null, "pending", 0, 0)
DoTick == Step("tick", NoNotice, Null, "pending", 0, 0)
DoScan == Step("scan", NoNotice, Null, "pending", 0, 0)
DoCleanup == Step("cleanup", NoNotice, Null, "pending", 0, 0)
DoStatus(targetId, notice, status) == Step("status", notice, targetId, status, 0, 0)
DoBlackout(start, end) == Step("blackout", NoNotice, Null, "pending", start, end)
DoElapse(seconds) == Step("elapse", NoNotice, Null, "pending", 0, seconds)
DoDisplay(displayId) == Step("display", NoNotice, displayId, "pending", 0, 0)
DoShutdown == Step("shutdown", NoNotice, Null, "pending", 0, 0)

\* n times the step
Times(n, step) == [i \in 1 .. n |-> step]

\* n notices are scheduled and activated, one after the other
FillChannel(n) ==
    [i \in 1 .. 2 * n |-> IF i % 2 = 1 THEN DoSchedule(Filler) ELSE DoScan]

Plans ==
    << << >>,
       \* a notice is scheduled, and the scan activates it
       << DoSchedule(NoticeA), DoScan >>,
       \* its delivery fails until the retries are exhausted
       << DoSchedule(NoticeA), DoScan, DoStatus("u1", NoticeA, "failed"),
          DoStatus("u1", NoticeA, "failed"), DoStatus("u1", NoticeA, "failed") >>,
       \* a notice with two retries fails twice
       << DoSchedule(NoticeF), DoTick, DoTick, DoStatus("u1", NoticeF, "failed"),
          DoStatus("u1", NoticeF, "failed") >>,
       \* seven notices are scheduled, in the order 1, 4, 2, 5, 6, 7, 3
       << DoSchedule(Ranked(1)), DoSchedule(Ranked(4)), DoSchedule(Ranked(2)),
          DoSchedule(Ranked(5)), DoSchedule(Ranked(6)), DoSchedule(Ranked(7)),
          DoSchedule(Ranked(3)) >>,
       \* a channel is filled to its capacity
       FillChannel(bufferSize),
       \* a notice is scheduled when its window is over, and the wheel turns
       << DoTick, DoTick, DoSchedule(NoticeX) >> \o Times(WheelSlots - 1, DoTick),
       \* a blackout is recorded
       << DoBlackout(10, 100) >>,
       \* the wheel activates a notice
       << DoSchedule(NoticeF), DoTick, DoTick >>,
       \* a channel holds a notice with a short window and one with a long
       \* window
       << DoSchedule(NoticeX), DoTick, DoSchedule(NoticeA), DoScan >>,
       \* a channel is filled to its capacity, a normal notice first
       << DoSchedule(NoticeA), DoScan >> \o FillChannel(bufferSize - 1),
       \* a day after two notices were activated, the first has been over
       \* for exactly the time the history is kept
       << DoSchedule(NoticeA), DoSchedule(NoticeE), DoScan,
          DoElapse(HistorySeconds), DoElapse(NoticeA.visibleUntil - StartTime) >> >>

\* the notices arbitrary clients pass
FreeNotices == {NoticeA, NoticeE, NoticeF, NoticeX}

\* the targets that report a delivery
Targets == {"u1", "u2"}

\* the channels a display asks for; nothing is ever sent to the lobby
Displays == {"web", "display", "lobby"}

\* the periods a client sleeps or the event loop is blocked, in seconds
Pauses == {BackoffUnit, WheelSlots}

\* what a step makes of the scheduler: the scheduler after it, what it
\* returns or throws, and the clock after it
Outcome(S, step, t) ==
    CASE step.op = "schedule" ->
            [scheduler |-> scheduleNotice(S, step.notice, t), ret |-> NoReturn,
             clock |-> t]
      [] step.op = "preempt" ->
            [scheduler |-> preemptWithEmergency(S, step.notice, t).scheduler,
             ret |-> preemptWithEmergency(S, step.notice, t).ret,
             clock |-> t]
      [] step.op = "next" ->
            [scheduler |-> [S EXCEPT !.dispatchQueue = getNextNotice(@).queue],
             ret |-> Returned(getNextNotice(S.dispatchQueue).notice),
             clock |-> t]
      [] step.op = "tick" ->
            \* setInterval: a second has passed since the last tick
            [scheduler |-> processTimerWheel(S, t + 1), ret |-> NoReturn,
             clock |-> t + 1]
      [] step.op = "scan" ->
            [scheduler |-> processScheduledNotices(S, t), ret |-> NoReturn,
             clock |-> t]
      [] step.op = "cleanup" ->
            [scheduler |-> cleanupExpiredNotices(S, t), ret |-> NoReturn,
             clock |-> t]
      [] step.op = "status" ->
            [scheduler |-> updateDeliveryStatus(S, step.targetId,
                                                step.notice.noticeId, step.status, t),
             ret |-> NoReturn, clock |-> t]
      [] step.op = "blackout" ->
            [scheduler |-> addBlackoutPeriod(S, step.start, step.end, t),
             ret |-> NoReturn, clock |-> t]
      [] step.op = "elapse" ->
            [scheduler |-> S, ret |-> thrown, clock |-> t + step.end]
      [] step.op = "shutdown" ->
            [scheduler |-> S, ret |-> NoReturn, clock |-> t]
      [] step.op = "display" ->
            [scheduler |-> S,
             ret |-> ReturnedArray(getDisplayNotices(S, step.targetId, t)),
             clock |-> t]

----------------------------------------------------------------------------
(* The scheduler's actions                                                 *)

Plan == Plans[plan.scenario]

PlanOver == plan.pc = Len(Plan)

\* an arbitrary client may call
FreeStep == PlanOver /\ plan.free < MaxSchedFree

\* the timer that makes the step is running; the other steps are calls
\* of clients
Fires(step) ==
    CASE step.op = "tick" -> timers.interval = "set"
      [] step.op = "scan" -> timers.schedulerJob = "scheduled"
      [] step.op = "cleanup" -> timers.cleanupJob = "scheduled"
      [] OTHER -> TRUE

\* the step takes effect
Perform(step) ==
    LET outcome == Outcome(Scheduler, step, wallClock)
    IN  /\ Fires(step)
        /\ timers' = IF step.op = "shutdown" THEN shutdown(timers) ELSE timers
        /\ dispatchQueue' = outcome.scheduler.dispatchQueue
        /\ activeNotices' = outcome.scheduler.activeNotices
        /\ deliveryCheckpoints' = outcome.scheduler.deliveryCheckpoints
        /\ timeIntervals' = outcome.scheduler.timeIntervals
        /\ displayBuffers' = outcome.scheduler.displayBuffers
        /\ timerWheel' = outcome.scheduler.timerWheel
        /\ currentTick' = outcome.scheduler.currentTick
        /\ wallClock' = outcome.clock
        /\ thrown' = outcome.ret

\* an arbitrary call
Free(step) ==
    /\ Perform(step)
    /\ plan' = [plan EXCEPT !.free = @ + 1]
    /\ UNCHANGED <<fsmVars, atomicVars, serviceVars>>

\* the next call of the plan
Play ==
    /\ ~ PlanOver
    /\ Perform(Plan[plan.pc + 1])
    /\ plan' = [plan EXCEPT !.pc = @ + 1]
    /\ UNCHANGED <<fsmVars, atomicVars, serviceVars>>

\* POST /:id/approve : scheduler.scheduleNotice(scheduledNotice)
ScheduleNotice ==
    /\ FreeStep
    /\ \E notice \in FreeNotices : Free(DoSchedule(notice))

\* POST /:id/emergency : scheduler.preemptWithEmergency(emergencyNotice)
PreemptWithEmergency ==
    /\ FreeStep
    /\ \E notice \in {NoticeE, NoticeA} : Free(DoPreempt(notice))

GetNextNotice ==
    /\ FreeStep
    /\ Free(DoNext)

\* setInterval(..., 1000)
ProcessTimerWheel ==
    /\ FreeStep
    /\ Free(DoTick)

\* cron '* * * * *'
ProcessScheduledNotices ==
    /\ FreeStep
    /\ Free(DoScan)

\* cron '0 * * * *'
CleanupExpiredNotices ==
    /\ FreeStep
    /\ Free(DoCleanup)

UpdateDeliveryStatus ==
    /\ FreeStep
    /\ \E targetId \in Targets, notice \in {NoticeA, NoticeF},
          status \in DeliveryStatus :
          Free(DoStatus(targetId, notice, status))

AddBlackoutPeriod ==
    /\ FreeStep
    /\ Free(DoBlackout(10, 100))

\* time passes without a timer firing
Elapse ==
    /\ FreeStep
    /\ \E seconds \in Pauses : Free(DoElapse(seconds))

\* the process is about to exit
Shutdown ==
    /\ FreeStep
    /\ Free(DoShutdown)

\* a display pulls its notices
GetDisplayNotices ==
    /\ FreeStep
    /\ \E displayId \in Displays : Free(DoDisplay(displayId))

InitSched ==
    /\ noticeStates = << >>
    /\ noticeContexts = << >>
    /\ stateLog = << >>
    /\ now = 0
    /\ ret = NoReturn
    /\ driver = [scenario |-> 1, pc |-> 0]
    /\ NoCalls
    /\ ServicesAtRest
    /\ dispatchQueue = << >>
    /\ activeNotices = << >>
    /\ deliveryCheckpoints = << >>
    /\ timeIntervals = << >>
    /\ displayBuffers = << >>
    /\ timerWheel = << >>
    /\ currentTick = 0
    /\ wallClock = StartTime
    /\ thrown = NoReturn
    /\ timers = initializeScheduler
    /\ plan \in [scenario : 1 .. Len(Plans), pc : {0}, free : {0}]

NextSched ==
    \/ Play
    \/ ScheduleNotice
    \/ PreemptWithEmergency
    \/ GetNextNotice
    \/ ProcessTimerWheel
    \/ ProcessScheduledNotices
    \/ CleanupExpiredNotices
    \/ UpdateDeliveryStatus
    \/ AddBlackoutPeriod
    \/ Elapse
    \/ GetDisplayNotices
    \/ Shutdown

SpecSched == InitSched /\ [][NextSched]_vars

----------------------------------------------------------------------------
(* The targeting service (AudienceTargetingService)                        *)
(*                                                                         *)
(* A bitmap is the set of the numeric ids added to it; the arrays of a     *)
(* rule are the sets of their values, since the service only iterates over *)
(* them to build unions.                                                   *)

\* the most calls the clients of the targeting service make
MaxAudienceCalls == 3

UserIds == {"u1", "u2"}
Departments == {"Eng", "Sales"}
RolesHeld == {"Dev", "Mgr"}
Locations == {"HQ", "Remote"}
Tags == {"t1"}

\* the UserAttributes the register-user route passes
UserAttributes ==
    [userId : UserIds, role : RolesHeld, department : Departments,
     location : Locations, tags : SUBSET Tags]

\* the AudienceRules the create route stores
AudienceRules ==
    [departments : SUBSET Departments, roles : SUBSET RolesHeld,
     locations : SUBSET Locations, tags : SUBSET Tags]

\* map.get(key), for a map of bitmaps or sets; nothing when there is none
Members(m, k) == IF k \in DOMAIN m THEN m[k] ELSE {}

\* ensureBitmap / ensureInvertedIndex, then add
AddMember(m, k, x) == MapSet(m, k, Members(m, k) \cup {x})

\* tags.forEach of registerUser
IndexTags(index, tags, userId) ==
    [t \in (DOMAIN index) \cup tags |->
        IF t \in tags THEN Members(index, t) \cup {userId} ELSE index[t]]

\* variant: the memberships of an earlier registration are dropped first
registerUser_Moves(A, userAttributes) ==
    LET userId == userAttributes.userId
        numbered ==
           IF userId \in DOMAIN A.userIdToNumber THEN A
           ELSE [A EXCEPT !.userIdToNumber = MapSet(@, userId, A.nextUserId),
                          !.numberToUserId = MapSet(@, A.nextUserId, userId),
                          !.nextUserId = @ + 1]
        numericId == numbered.userIdToNumber[userId]
        Without(m, x) == [k \in DOMAIN m |-> m[k] \ {x}]
    IN  [numbered EXCEPT
            !.userAttributes = MapSet(@, userId, userAttributes),
            !.departmentBitmaps =
                AddMember(Without(@, numericId), userAttributes.department, numericId),
            !.roleBitmaps = AddMember(Without(@, numericId), userAttributes.role, numericId),
            !.locationBitmaps =
                AddMember(Without(@, numericId), userAttributes.location, numericId),
            !.invertedIndex = IndexTags(Without(@, userId), userAttributes.tags, userId)]

registerUser(A, userAttributes) ==
    LET userId == userAttributes.userId
        numbered ==
           IF userId \in DOMAIN A.userIdToNumber THEN A
           ELSE [A EXCEPT !.userIdToNumber = MapSet(@, userId, A.nextUserId),
                          !.numberToUserId = MapSet(@, A.nextUserId, userId),
                          !.nextUserId = @ + 1]
        numericId == numbered.userIdToNumber[userId]
    IN  [numbered EXCEPT
            !.userAttributes = MapSet(@, userId, userAttributes),
            !.departmentBitmaps = AddMember(@, userAttributes.department, numericId),
            !.roleBitmaps = AddMember(@, userAttributes.role, numericId),
            !.locationBitmaps = AddMember(@, userAttributes.location, numericId),
            !.invertedIndex = IndexTags(@, userAttributes.tags, userId)]

\* values.forEach(v => union.or(bitmaps.get(v)))
UnionOf(bitmaps, values) == UNION {Members(bitmaps, v) : v \in values}

\* the bitmap findEligibleUsers has built before it looks at the tags
eligibleBitmap(A, rule) ==
    IF rule.departments = {} /\ rule.roles = {} /\ rule.locations = {}
    THEN {A.userIdToNumber[userId] : userId \in DOMAIN A.userIdToNumber}
    ELSE LET deptUnion == UnionOf(A.departmentBitmaps, rule.departments)
             roleUnion == UnionOf(A.roleBitmaps, rule.roles)
             locationUnion == UnionOf(A.locationBitmaps, rule.locations)
             afterDepartments == IF rule.departments # {} THEN deptUnion ELSE {}
             afterRoles ==
                IF rule.roles = {} THEN afterDepartments
                ELSE IF afterDepartments = {} THEN roleUnion
                     ELSE afterDepartments \cap roleUnion
         IN  IF rule.locations = {} THEN afterRoles
             ELSE IF afterRoles = {} THEN locationUnion
                  ELSE afterRoles \cap locationUnion

\* bitmap.forEach: the numeric ids in ascending order
Ascending(bitmap) ==
    [k \in 1 .. Cardinality(bitmap) |->
        CHOOSE n \in bitmap : Cardinality({m \in bitmap : m <= n}) = k]

\* findEligibleUsers: the array of user ids it returns
findEligibleUsers(A, rule) ==
    LET tagEligibleUsers == UnionOf(A.invertedIndex, rule.tags)
        kept == IF rule.tags # {}
                THEN {n \in eligibleBitmap(A, rule) :
                         A.numberToUserId[n] \in tagEligibleUsers}
                ELSE eligibleBitmap(A, rule)
    IN  [k \in 1 .. Cardinality(kept) |-> A.numberToUserId[Ascending(kept)[k]]]

\* getUserAttributes: the stored attributes, or Null for undefined
getUserAttributes(A, userId) ==
    IF userId \in DOMAIN A.userAttributes THEN A.userAttributes[userId] ELSE Null

storeAudienceRule(A, noticeId, rule) ==
    [A EXCEPT !.noticeEligibility = MapSet(@, noticeId, rule)]

\* getAudienceRule: the rule, or Null for undefined
getAudienceRule(A, noticeId) ==
    IF noticeId \in DOMAIN A.noticeEligibility THEN A.noticeEligibility[noticeId]
    ELSE Null

\* `${userId}:${noticeId}`
SeenKey(userId, noticeId) == userId \o ":" \o noticeId

\* variant: a bit of the key is set, the bits of the other keys are cleared
markNoticeSeen_Overwrites(A, hash, userId, noticeId) ==
    [A EXCEPT !.seenNoticesBloom = hash[SeenKey(userId, noticeId)]]

\* BloomFilter.add: the bits of the key are set
markNoticeSeen(A, hash, userId, noticeId) ==
    [A EXCEPT !.seenNoticesBloom = @ \cup hash[SeenKey(userId, noticeId)]]

\* BloomFilter.has: all the bits of the key are set
hasUserSeenNotice(A, hash, userId, noticeId) ==
    hash[SeenKey(userId, noticeId)] \subseteq A.seenNoticesBloom

----------------------------------------------------------------------------
(* The clients of the targeting service: users are registered and rules    *)
(* are resolved, in any order.                                             *)

CallsLeft == audienceCalls < MaxAudienceCalls

\* POST /register-user
RegisterUser ==
    /\ CallsLeft
    /\ \E userAttributes \in UserAttributes :
          audienceService' = registerUser(audienceService, userAttributes)
    /\ audienceRet' = NoReturn
    /\ audienceCalls' = audienceCalls + 1
    /\ UNCHANGED <<bloomHash, marked, fsmVars, atomicVars, schedVars, routeVars, validation>>

\* audienceService.findEligibleUsers(audienceRule)
FindEligibleUsers ==
    /\ CallsLeft
    /\ \E rule \in AudienceRules :
          audienceRet' = [kind |-> "array", rule |-> rule,
                          value |-> findEligibleUsers(audienceService, rule)]
    /\ audienceCalls' = audienceCalls + 1
    /\ UNCHANGED <<audienceService, bloomHash, marked, fsmVars, atomicVars, schedVars, routeVars, validation>>

InitTargeting ==
    /\ noticeStates = << >>
    /\ noticeContexts = << >>
    /\ stateLog = << >>
    /\ now = 0
    /\ ret = NoReturn
    /\ driver = [scenario |-> 1, pc |-> 0]
    /\ NoCalls
    /\ SchedulerAtRest
    /\ ServicesAtRest

NextTargeting ==
    \/ RegisterUser
    \/ FindEligibleUsers

SpecTargeting == InitTargeting /\ [][NextTargeting]_vars

----------------------------------------------------------------------------
(* The seen-set: displays mark notices as seen and ask whether they were.  *)
(* The filter's hash functions are the library's: every assignment of bit  *)
(* positions to the keys is considered.                                    *)

\* the number of bits of the filter
FilterBits == 3

\* the most calls made while notices are shown
MaxSeenCalls == 4

SeenCallsLeft == audienceCalls < MaxSeenCalls

\* the notices shown to the users
SeenNotices == {"n1"}

\* the keys the display route builds
SeenKeys == {SeenKey(userId, noticeId) : userId \in UserIds, noticeId \in SeenNotices}

\* the positions the hash functions can give a key: at least one, and two
\* when they do not coincide
HashPositions == {b \in SUBSET (0 .. (FilterBits - 1)) : Cardinality(b) \in {1, 2}}

\* the users as they register while notices are shown
Newcomers ==
    {[userId |-> userId, role |-> "Dev", department |-> "Eng",
      location |-> "HQ", tags |-> {}] : userId \in UserIds}

\* audienceService.markNoticeSeen(userId, notice.noticeId)
MarkNoticeSeen ==
    /\ SeenCallsLeft
    /\ \E userId \in UserIds, noticeId \in SeenNotices :
          /\ audienceService' = markNoticeSeen(audienceService, bloomHash, userId, noticeId)
          /\ marked' = marked \cup {<<userId, noticeId>>}
    /\ audienceRet' = NoReturn
    /\ audienceCalls' = audienceCalls + 1
    /\ UNCHANGED <<bloomHash, fsmVars, atomicVars, schedVars, routeVars, validation>>

\* audienceService.hasUserSeenNotice(userId, notice.noticeId)
HasUserSeenNotice ==
    /\ SeenCallsLeft
    /\ \E userId \in UserIds, noticeId \in SeenNotices :
          audienceRet' = [kind |-> "return", userId |-> userId, noticeId |-> noticeId,
                          value |-> hasUserSeenNotice(audienceService, bloomHash,
                                                      userId, noticeId)]
    /\ audienceCalls' = audienceCalls + 1
    /\ UNCHANGED <<audienceService, bloomHash, marked, fsmVars, atomicVars, schedVars, routeVars, validation>>

\* POST /register-user, while notices are shown
RegisterNewcomer ==
    /\ SeenCallsLeft
    /\ \E userAttributes \in Newcomers :
          audienceService' = registerUser(audienceService, userAttributes)
    /\ audienceRet' = NoReturn
    /\ audienceCalls' = audienceCalls + 1
    /\ UNCHANGED <<bloomHash, marked, fsmVars, atomicVars, schedVars, routeVars, validation>>

InitSeen ==
    /\ noticeStates = << >>
    /\ noticeContexts = << >>
    /\ stateLog = << >>
    /\ now = 0
    /\ ret = NoReturn
    /\ driver = [scenario |-> 1, pc |-> 0]
    /\ NoCalls
    /\ SchedulerAtRest
    /\ audienceService = NewAudienceService
    /\ bloomHash \in [SeenKeys -> HashPositions]
    /\ audienceRet = NoReturn
    /\ marked = {}
    /\ RoutesAtRest
    /\ ValidationAtRest
    /\ audienceCalls = 0

NextSeen ==
    \/ MarkNoticeSeen
    \/ HasUserSeenNotice
    \/ RegisterNewcomer

SpecSeen == InitSeen /\ [][NextSeen]_vars

----------------------------------------------------------------------------
(* The routes of the notice API                                            *)
(*                                                                         *)
(* The router owns one lifecycle machine, one scheduler and one targeting  *)
(* service.  A handler runs without interruption from one awaited call of  *)
(* the database to the next; while it waits, other handlers and the        *)
(* scheduler's timers run.  Instants are seconds of the scheduler's clock. *)

\* the number a lookup gives when the key is missing: undefined
NoNumber == -1

\* a || b on numbers: 0 and undefined are falsy
OrElse(a, b) == IF a = NoNumber \/ a = 0 THEN b ELSE a

\* the mapping of getPriorityNumber and of getPriorityEnum; a missing key
\* gives undefined
mapping(priority) ==
    CASE priority = "EMERGENCY" -> EMERGENCY
      [] priority = "URGENT" -> URGENT
      [] priority = "HIGH" -> HIGH
      [] priority = "NORMAL" -> NORMAL
      [] priority = "LOW" -> LOW
      [] OTHER -> NoNumber

getPriorityNumber(priority) == OrElse(mapping(priority), 3)

getPriorityEnum(priority) == OrElse(mapping(priority), NORMAL)

\* req.user.role when the request's user carries none
Undefined == "undefined"

\* (req as any).user.role || fallback
RoleOr(role, fallback) == IF role = Undefined THEN fallback ELSE role

\* the life of an approved notice without expiry: 24 hours
DefaultLife == 86400

\* the life of an emergency: 2 hours
EmergencyLife == 7200

\* the body of a request: the fields some route reads
NoBody ==
    [priority |-> "NORMAL", isPublic |-> FALSE, visibleFrom |-> NoDate,
     visibleUntil |-> NoDate, audienceRule |-> << >>, scheduledTime |-> NoDate,
     userAttributes |-> << >>, userId |-> Null]

\* a request: its route, the id in its path, the role of its user, its body
Request(route, id, role, body) ==
    [route |-> route, id |-> id, role |-> role, body |-> body]

\* a handler: its request, where it is, the status and the notices it
\* answered with, and the lifecycle state its notice had when it began
Handler(request) ==
    [route |-> request.route, id |-> request.id, role |-> request.role,
     body |-> request.body, pc |-> "start", status |-> 0, notices |-> << >>,
     stateAtArrival |-> Null]

\* uuidv4(): the id of the next notice created
CreatedIds == <<"n1", "n2">>

NextNoticeId == CreatedIds[Cardinality(DOMAIN prismaNotices) + 1]

\* the lifecycle state of the notice, or Null when the machine has none
StateOf(noticeId) ==
    IF noticeId \in DOMAIN noticeStates THEN noticeStates[noticeId] ELSE Null

\* the answer of a handler
Respond(h, status) == [h EXCEPT !.pc = "done", !.status = status]

\* the handler waits for the database
Await(h, pc) == [h EXCEPT !.pc = pc]

\* the handlers once the i-th has become h: a handler that has answered is
\* over
Proceed(i, h) ==
    SelectSeq([handlers EXCEPT ![i] = h], LAMBDA other : other.pc # "done")

\* what a client holds of the answer of h
Answer(h) ==
    [route |-> h.route, id |-> h.id, userId |-> h.body.userId,
     status |-> h.status, notices |-> h.notices]

\* the i-th handler becomes h; when h has answered, its client has the answer
Handle(i, h) ==
    /\ handlers' = Proceed(i, h)
    /\ traffic' = IF h.pc = "done" THEN [traffic EXCEPT !.answer = Answer(h)]
                  ELSE traffic

\* a call of transition() by a handler, at the reading of the clock
RouteInput(event, userRole, scheduledTime) ==
    [event |-> event, timestamp |-> wallClock,
     userRole |-> userRole, scheduledTime |-> scheduledTime]

\* the call returned a transition that is valid
IsValid(result) == result.ret.kind = "return" /\ result.ret.value.isValid

\* the status of a handler whose transition is not valid: 400 for a
\* returned refusal, 500 for an exception
Refusal(result) == IF result.ret.kind = "throw" THEN 500 ELSE 400

\* the scheduler becomes S
BecomesScheduler(S) ==
    /\ dispatchQueue' = S.dispatchQueue
    /\ activeNotices' = S.activeNotices
    /\ deliveryCheckpoints' = S.deliveryCheckpoints
    /\ timeIntervals' = S.timeIntervals
    /\ displayBuffers' = S.displayBuffers
    /\ timerWheel' = S.timerWheel
    /\ currentTick' = S.currentTick

\* what no route and no timer of the router touches
RouteFrame == UNCHANGED <<now, driver, atomicVars, plan, timers, bloomHash,
                          audienceRet, marked, audienceCalls, validation>>

MachineUntouched == UNCHANGED <<noticeStates, noticeContexts, stateLog, ret>>

SchedulerUntouched == UNCHANGED <<schedulerFields, wallClock, thrown>>

\* the handler at position i is at pc of route
Reached(i, route, pc) ==
    /\ i \in 1 .. Len(handlers)
    /\ handlers[i].route = route
    /\ handlers[i].pc = pc

\* the row of prisma.notice.create
NewRow(id, body) ==
    [id |-> id, priority |-> body.priority, isPublic |-> body.isPublic,
     expiresAt |-> body.visibleUntil, status |-> "DRAFT",
     createdAt |-> wallClock]

\* prisma.notice.update of the status, and of the priority when given
UpdateRow(id, status, priority) ==
    prismaNotices' =
        IF id \in DOMAIN prismaNotices
        THEN [prismaNotices EXCEPT ![id].status = status,
                                   ![id].priority = priority]
        ELSE prismaNotices

\* POST /: the row is created
CreateNotice ==
    \E i \in 1 .. Len(handlers) :
       /\ Reached(i, "create", "start")
       /\ Cardinality(DOMAIN prismaNotices) < Len(CreatedIds)
       /\ prismaNotices' =
             MapSet(prismaNotices, NextNoticeId,
                    NewRow(NextNoticeId, handlers[i].body))
       /\ Handle(i, Await([handlers[i] EXCEPT !.id = NextNoticeId], "created"))
       /\ UNCHANGED <<audienceService>>
       /\ MachineUntouched /\ SchedulerUntouched /\ RouteFrame

\* POST /, after the create: the notice is initialized in the machine and
\* its audience rule is stored
InitializeCreated ==
    \E i \in 1 .. Len(handlers) :
       /\ Reached(i, "create", "created")
       /\ LET h == handlers[i]
              notice == prismaNotices[h.id]
              context ==
                 [id |-> notice.id,
                  currentState |-> DRAFT,
                  visibleFrom |-> h.body.visibleFrom,
                  visibleUntil |-> h.body.visibleUntil,
                  priority |-> getPriorityNumber(h.body.priority),
                  lastModifiedAt |-> notice.createdAt]
          IN  /\ Apply(initializeNotice(Machine, notice.id, context, wallClock))
              /\ audienceService' =
                    IF h.body.audienceRule # << >>
                    THEN storeAudienceRule(audienceService, notice.id,
                                           h.body.audienceRule[1])
                    ELSE audienceService
              /\ Handle(i, Respond(h, 201))
       /\ UNCHANGED <<prismaNotices>>
       /\ SchedulerUntouched /\ RouteFrame

\* POST /register-user
RegisterUserRoute ==
    \E i \in 1 .. Len(handlers) :
       /\ Reached(i, "register", "start")
       /\ audienceService' =
             registerUser(audienceService, handlers[i].body.userAttributes[1])
       /\ Handle(i, Respond(handlers[i], 200))
       /\ UNCHANGED <<prismaNotices>>
       /\ MachineUntouched /\ SchedulerUntouched /\ RouteFrame

\* a handler that makes one transition and then updates the row
TransitionThenUpdate(i, event, fallback) ==
    LET h == handlers[i]
        result == transition(Machine, h.id,
                             RouteInput(event, RoleOr(h.role, fallback), NoDate))
    IN  /\ Apply(result)
        /\ Handle(i, IF IsValid(result) THEN Await(h, "update")
                                  ELSE Respond(h, Refusal(result)))
        /\ UNCHANGED <<prismaNotices, audienceService>>
        /\ SchedulerUntouched /\ RouteFrame

\* the awaited update of the status is done and the handler answers
Updated(i, status, priority) ==
    /\ UpdateRow(handlers[i].id, status, priority)
    /\ Handle(i, Respond(handlers[i], IF handlers[i].id \in DOMAIN prismaNotices
                                         THEN 200 ELSE 500))
    /\ UNCHANGED <<audienceService>>
    /\ MachineUntouched /\ SchedulerUntouched /\ RouteFrame

\* the priority of the row of a handler's notice, when there is one
RowPriority(i) ==
    IF handlers[i].id \in DOMAIN prismaNotices
    THEN prismaNotices[handlers[i].id].priority
    ELSE "NORMAL"

\* POST /:id/submit
SubmitNotice ==
    \E i \in 1 .. Len(handlers) :
       /\ Reached(i, "submit", "start")
       /\ TransitionThenUpdate(i, SUBMIT, PUBLISHER)

SubmitUpdated ==
    \E i \in 1 .. Len(handlers) :
       /\ Reached(i, "submit", "update")
       /\ Updated(i, "SUBMITTED", RowPriority(i))

\* POST /:id/reject
RejectNotice ==
    \E i \in 1 .. Len(handlers) :
       /\ Reached(i, "reject", "start")
       /\ TransitionThenUpdate(i, REJECT, USER)

RejectUpdated ==
    \E i \in 1 .. Len(handlers) :
       /\ Reached(i, "reject", "update")
       /\ Updated(i, "REJECTED", RowPriority(i))

\* POST /:id/approve, to its first await: the two APPROVE transitions
ApproveNotice ==
    \E i \in 1 .. Len(handlers) :
       /\ Reached(i, "approve", "start")
       /\ LET h == [handlers[i] EXCEPT !.stateAtArrival = StateOf(handlers[i].id)]
              input == RouteInput(APPROVE, RoleOr(h.role, USER), NoDate)
              first == transition(Machine, h.id, input)
              second == transition(first.machine, h.id, input)
          IN  IF ~ IsValid(first)
              THEN /\ Apply(first)
                   /\ Handle(i, Respond(h, Refusal(first)))
              ELSE /\ Apply(second)
                   /\ Handle(i, IF IsValid(second)
                                             THEN Await(h, "update")
                                             ELSE Respond(h, Refusal(second)))
       /\ UNCHANGED <<prismaNotices, audienceService>>
       /\ SchedulerUntouched /\ RouteFrame

\* POST /:id/approve: the row is marked APPROVED and is then looked up
ApproveUpdated ==
    \E i \in 1 .. Len(handlers) :
       /\ Reached(i, "approve", "update")
       /\ UpdateRow(handlers[i].id, "APPROVED", RowPriority(i))
       /\ Handle(i, IF handlers[i].id \in DOMAIN prismaNotices
                                 THEN Await(handlers[i], "find") ELSE Respond(handlers[i], 500))
       /\ UNCHANGED <<audienceService>>
       /\ MachineUntouched /\ SchedulerUntouched /\ RouteFrame

\* variant: a public notice goes to everyone, whatever rule is stored
ResolveAudience_PublicFirst(A, notice) ==
    IF notice.isPublic THEN <<"all-users">>
    ELSE IF notice.id \in DOMAIN A.noticeEligibility
    THEN findEligibleUsers(A, getAudienceRule(A, notice.id))
    ELSE << >>

\* the audience the approve route resolves for a notice
ResolveAudience(A, notice) ==
    IF notice.id \in DOMAIN A.noticeEligibility
    THEN findEligibleUsers(A, getAudienceRule(A, notice.id))
    ELSE IF notice.isPublic THEN <<"all-users">>
    ELSE << >>

\* the ScheduledNotice the approve route builds
ApprovedNotice(A, notice, scheduledTime, clock) ==
    ScheduledNotice(notice.id,
                    getPriorityEnum(notice.priority),
                    IF scheduledTime # NoDate THEN scheduledTime ELSE clock,
                    IF notice.expiresAt # NoDate THEN notice.expiresAt
                    ELSE clock + DefaultLife,
                    ResolveAudience(A, notice),
                    <<"web">>,
                    3)

\* POST /:id/approve, after the lookup: the audience is resolved, the unit
\* is handed to the scheduler and the SCHEDULE transition is made, whatever
\* it returns
ApproveFound ==
    \E i \in 1 .. Len(handlers) :
       /\ Reached(i, "approve", "find")
       /\ LET h == handlers[i]
              notice == prismaNotices[h.id]
              scheduledNotice ==
                 ApprovedNotice(audienceService, notice, h.body.scheduledTime,
                                wallClock)
              result ==
                 transition(Machine, h.id,
                            RouteInput(SCHEDULE, SYSTEM, scheduledNotice.visibleFrom))
          IN  /\ BecomesScheduler(scheduleNotice(Scheduler, scheduledNotice, wallClock))
              /\ Apply(result)
              /\ Handle(i, IF result.ret.kind = "throw"
                                        THEN Respond(h, 500)
                                        ELSE Await(h, "scheduled"))
       /\ UNCHANGED <<prismaNotices, audienceService, wallClock, thrown>>
       /\ RouteFrame

\* the status of the approve route's last answer.  res.json reads
\* targetAudience, a name declared by `let` inside the block `if (notice)`
\* and unknown after it: the read throws a ReferenceError, and the
\* handler's catch answers 500.
ApproveAnswer == 500

\* POST /:id/approve: the row is marked SCHEDULED and the handler answers
ApproveScheduled ==
    \E i \in 1 .. Len(handlers) :
       /\ Reached(i, "approve", "scheduled")
       /\ UpdateRow(handlers[i].id, "SCHEDULED", RowPriority(i))
       /\ Handle(i, Respond(handlers[i], ApproveAnswer))
       /\ UNCHANGED <<audienceService>>
       /\ MachineUntouched /\ SchedulerUntouched /\ RouteFrame

\* the ScheduledNotice the emergency route builds
EmergencyNotice(notice, clock) ==
    ScheduledNotice(notice.id, EMERGENCY, clock, clock + EmergencyLife,
                    <<"all-users">>, <<"web", "mobile", "display">>, 5)

\* POST /:id/emergency, to its first await: only an admin passes
EmergencyRequest ==
    \E i \in 1 .. Len(handlers) :
       /\ Reached(i, "emergency", "start")
       /\ Handle(i, IF RoleOr(handlers[i].role, USER) # ADMIN
                                 THEN Respond(handlers[i], 403)
                                 ELSE Await(handlers[i], "find"))
       /\ UNCHANGED <<prismaNotices, audienceService>>
       /\ MachineUntouched /\ SchedulerUntouched /\ RouteFrame

\* POST /:id/emergency, after the lookup: the scheduler is preempted, then
\* the ACTIVATE transition is made, whatever it returns
EmergencyFound ==
    \E i \in 1 .. Len(handlers) :
       /\ Reached(i, "emergency", "find")
       /\ LET h == handlers[i]
          IN  IF h.id \notin DOMAIN prismaNotices
              THEN /\ Handle(i, Respond(h, 404))
                   /\ MachineUntouched
                   /\ UNCHANGED <<schedulerFields, thrown>>
              ELSE LET emergencyNotice ==
                          EmergencyNotice(prismaNotices[h.id], wallClock)
                       preempted ==
                          preemptWithEmergency(Scheduler, emergencyNotice, wallClock)
                       result ==
                          transition(Machine, h.id,
                                     RouteInput(ACTIVATE, RoleOr(h.role, USER), NoDate))
                   IN  /\ BecomesScheduler(preempted.scheduler)
                       /\ thrown' = preempted.ret
                       /\ Apply(result)
                       /\ Handle(i, IF result.ret.kind = "throw"
                                                 THEN Respond(h, 500)
                                                 ELSE Await(h, "update"))
       /\ UNCHANGED <<prismaNotices, audienceService, wallClock>>
       /\ RouteFrame

\* POST /:id/emergency: the row is marked ACTIVE and EMERGENCY
EmergencyUpdated ==
    \E i \in 1 .. Len(handlers) :
       /\ Reached(i, "emergency", "update")
       /\ Updated(i, "ACTIVE", "EMERGENCY")

 \* eligibleNotices.forEach(markNoticeSeen), from the i-th notice on
RECURSIVE markSeenFrom(_, _, _, _, _)
markSeenFrom(A, hash, userId, notices, i) ==
    IF i > Len(notices) THEN A
    ELSE markSeenFrom(markNoticeSeen(A, hash, userId, notices[i].noticeId),
                      hash, userId, notices, i + 1)

\* variant: only the notices whose resolved audience holds the user pass
eligibleNotices_Targeted(A, hash, userId, displayNotices) ==
    SelectSeq(displayNotices,
              LAMBDA notice :
                 /\ userId \in {notice.targetAudience[k] :
                                   k \in 1 .. Len(notice.targetAudience)}
                 /\ \/ ~ hasUserSeenNotice(A, hash, userId, notice.noticeId)
                    \/ notice.priority = EMERGENCY)

\* the filter of the display route: not seen, or an emergency
eligibleNotices(A, hash, userId, displayNotices) ==
    SelectSeq(displayNotices,
              LAMBDA notice :
                 \/ ~ hasUserSeenNotice(A, hash, userId, notice.noticeId)
                 \/ notice.priority = EMERGENCY)

\* GET /display/:displayId : the handler awaits nothing
DisplayNotices ==
    \E i \in 1 .. Len(handlers) :
       /\ Reached(i, "display", "start")
       /\ LET h == handlers[i]
              userId == h.body.userId
              displayNotices == getDisplayNotices(Scheduler, h.id, wallClock)
              eligible == eligibleNotices(audienceService, bloomHash, userId,
                                          displayNotices)
          IN  /\ audienceService' =
                    markSeenFrom(audienceService, bloomHash, userId, eligible, 1)
              /\ marked' = marked \cup
                    {<<userId, eligible[k].noticeId>> : k \in 1 .. Len(eligible)}
              /\ Handle(i, [Respond(h, 200) EXCEPT !.notices = eligible])
       /\ UNCHANGED <<prismaNotices, now, driver, atomicVars, plan, timers, bloomHash,
                      audienceRet, audienceCalls, validation>>
       /\ MachineUntouched /\ SchedulerUntouched

----------------------------------------------------------------------------
(* The clients of the routes                                               *)

\* the number of events after a scenario: requests sent whatever the
\* others do, and firings of the scheduler's timers
MaxRouteEvents == 3

\* the users of the register-user requests
Alice == [userId |-> "u1", role |-> "Dev", department |-> "Eng",
          location |-> "HQ", tags |-> {}]
Bob == [userId |-> "u2", role |-> "Dev", department |-> "Eng",
        location |-> "Remote", tags |-> {}]
AliceMoved == [Alice EXCEPT !.department = "Sales"]
BobInSales == [Bob EXCEPT !.department = "Sales"]

\* the rule of the notices for the engineers
ForEngineers == [departments |-> {"Eng"}, roles |-> {}, locations |-> {},
                 tags |-> {}]

RegisterRequest(userAttributes) ==
    Request("register", Null, Undefined,
            [NoBody EXCEPT !.userAttributes = <<userAttributes>>])

CreateRequest(priority, isPublic, audienceRule) ==
    Request("create", Null, Undefined,
            [NoBody EXCEPT !.priority = priority, !.isPublic = isPublic,
                           !.audienceRule = audienceRule])

DisplayRequest(displayId, userId) ==
    Request("display", displayId, Undefined, [NoBody EXCEPT !.userId = userId])

ApproveRequest(id, role, scheduledTime) ==
    Request("approve", id, role, [NoBody EXCEPT !.scheduledTime = scheduledTime])

\* the scenarios: the requests of the script are sent one after the answer
\* to the other; the requests of the clients are then sent at any time
Traffic ==
    << \* a public notice for the engineers is created and submitted; moderators
       \* approve and reject it while users register
       [script |-> << RegisterRequest(Alice),
                      CreateRequest("NORMAL", TRUE, <<ForEngineers>>),
                      Request("submit", "n1", Undefined, NoBody) >>,
        clients |-> {ApproveRequest("n1", MODERATOR, NoDate),
                     ApproveRequest("n1", MODERATOR, StartTime + 1),
                     Request("reject", "n1", MODERATOR, NoBody),
                     RegisterRequest(Bob),
                     RegisterRequest(AliceMoved)}],
       \* a public emergency is created and submitted; it is approved by a
       \* moderator and by a user without role
       [script |-> << CreateRequest("EMERGENCY", TRUE, << >>),
                      Request("submit", "n1", PUBLISHER, NoBody) >>,
        clients |-> {ApproveRequest("n1", MODERATOR, NoDate),
                     ApproveRequest("n1", Undefined, NoDate),
                     Request("reject", "n1", Undefined, NoBody)}],
       \* a public notice is created and left a draft; it is declared an
       \* emergency
       [script |-> << CreateRequest("HIGH", TRUE, << >>) >>,
        clients |-> {Request("emergency", "n1", ADMIN, NoBody),
                     Request("emergency", "n1", Undefined, NoBody),
                     Request("emergency", "n2", ADMIN, NoBody),
                     CreateRequest("LOW", FALSE, << >>)}],
       \* a notice for the engineers alone is approved while an engineer and
       \* a salesman are registered; both poll the web display
       [script |-> << RegisterRequest(Alice),
                      RegisterRequest(BobInSales),
                      CreateRequest("NORMAL", FALSE, <<ForEngineers>>),
                      Request("submit", "n1", PUBLISHER, NoBody),
                      ApproveRequest("n1", MODERATOR, NoDate) >>,
        clients |-> {DisplayRequest("web", Alice.userId),
                     DisplayRequest("web", BobInSales.userId)}] >>

\* the scenarios in which a display is polled, and keys are hashed
Polled == {4}

Scripted == Traffic[traffic.scenario].script

\* the requests sent after the script
FreeRequests == Traffic[traffic.scenario].clients

TrafficOver == traffic.pc = Len(Scripted)

\* every handler has answered
Quiet == handlers = << >>

\* the next request of the scenario arrives when the one before is answered
Send ==
    /\ ~ TrafficOver
    /\ Quiet
    /\ handlers' = Append(handlers, Handler(Scripted[traffic.pc + 1]))
    /\ traffic' = [traffic EXCEPT !.pc = @ + 1]
    /\ UNCHANGED <<prismaNotices, audienceService>>
    /\ MachineUntouched /\ SchedulerUntouched /\ RouteFrame

\* after the scenario, requests arrive at any time
SendFree ==
    /\ TrafficOver
    /\ traffic.free + traffic.fired < MaxRouteEvents
    /\ \E request \in FreeRequests :
          handlers' = Append(handlers, Handler(request))
    /\ traffic' = [traffic EXCEPT !.free = @ + 1]
    /\ UNCHANGED <<prismaNotices, audienceService>>
    /\ MachineUntouched /\ SchedulerUntouched /\ RouteFrame

\* a timer of the scheduler may fire
MayFire == TrafficOver /\ traffic.free + traffic.fired < MaxRouteEvents

\* setInterval: a second has passed, the wheel is processed
TimerTick ==
    /\ MayFire
    /\ BecomesScheduler(processTimerWheel(Scheduler, wallClock + 1))
    /\ wallClock' = wallClock + 1
    /\ traffic' = [traffic EXCEPT !.fired = @ + 1]
    /\ UNCHANGED <<prismaNotices, handlers, audienceService, thrown>>
    /\ MachineUntouched /\ RouteFrame

\* the cron job: the queue is scanned
CronScan ==
    /\ MayFire
    /\ BecomesScheduler(processScheduledNotices(Scheduler, wallClock))
    /\ traffic' = [traffic EXCEPT !.fired = @ + 1]
    /\ UNCHANGED <<prismaNotices, handlers, audienceService, wallClock, thrown>>
    /\ MachineUntouched /\ RouteFrame

InitRoutes ==
    /\ noticeStates = << >>
    /\ noticeContexts = << >>
    /\ stateLog = << >>
    /\ now = 0
    /\ ret = NoReturn
    /\ driver = [scenario |-> 1, pc |-> 0]
    /\ NoCalls
    /\ SchedulerAtRest
    /\ audienceService = NewAudienceService
    /\ audienceRet = NoReturn
    /\ marked = {}
    /\ audienceCalls = 0
    /\ prismaNotices = << >>
    /\ handlers = << >>
    /\ traffic \in [scenario : 1 .. Len(Traffic), pc : {0}, free : {0}, fired : {0},
                     answer : {NoAnswer}]
    /\ bloomHash \in IF traffic.scenario \in Polled THEN [SeenKeys -> HashPositions]
                     ELSE {<< >>}
    /\ ValidationAtRest

NextRoutes ==
    \/ Send
    \/ SendFree
    \/ CreateNotice
    \/ InitializeCreated
    \/ RegisterUserRoute
    \/ SubmitNotice
    \/ SubmitUpdated
    \/ ApproveNotice
    \/ ApproveUpdated
    \/ ApproveFound
    \/ ApproveScheduled
    \/ RejectNotice
    \/ RejectUpdated
    \/ EmergencyRequest
    \/ EmergencyFound
    \/ EmergencyUpdated
    \/ DisplayNotices
    \/ TimerTick
    \/ CronScan

SpecRoutes == InitRoutes /\ [][NextRoutes]_vars

\* a step of some handler
HandlerStep ==
    \/ CreateNotice
    \/ InitializeCreated
    \/ RegisterUserRoute
    \/ SubmitNotice
    \/ SubmitUpdated
    \/ ApproveNotice
    \/ ApproveUpdated
    \/ ApproveFound
    \/ ApproveScheduled
    \/ RejectNotice
    \/ RejectUpdated
    \/ EmergencyRequest
    \/ EmergencyFound
    \/ EmergencyUpdated
    \/ DisplayNotices

\* the event loop runs every handler whose awaited call has returned, and
\* the timers of the scheduler keep firing; the clients are not obliged to
\* send anything
SpecRoutesLive ==
    /\ SpecRoutes
    /\ WF_vars(HandlerStep)
    /\ WF_vars(TimerTick)
    /\ WF_vars(CronScan)

----------------------------------------------------------------------------
(* Properties                                                              *)

Known == DOMAIN noticeStates

IsPrefix(s, t) == Len(s) <= Len(t) /\ SubSeq(t, 1, Len(s)) = s

\* the entry a state's last logging call wrote
LastEntry == stateLog[Len(stateLog)]

\* an entry written by transition(), not by initializeNotice()
IsAttempt(x) == x.reason # ReasonInitial

\* a step in which a call wrote the log, and the entry it wrote
Logged == Len(stateLog') = Len(stateLog) + 1
NewEntry == stateLog'[Len(stateLog')]

\* a step in which transition() was called on a known notice: the entry
\* names the notice, the event, the role and the timestamp of the call
Attempted == Logged /\ IsAttempt(NewEntry) /\ NewEntry.noticeId \in Known

\* C1: every change of a notice's current state from s to s' comes from an
\* event e that the table maps from s to s' and whose guard passed, the
\* change being the one valid entry the step logs; nothing else changes it.
C1_StateChangesOnlyThroughTable ==
    [][\A n \in Known :
          (n \in DOMAIN noticeStates' /\ noticeStates'[n] # noticeStates[n]) =>
             /\ Logged
             /\ NewEntry.noticeId = n
             /\ NewEntry.isValid
             /\ NewEntry.fromState = noticeStates[n]
             /\ NewEntry.toState = noticeStates'[n]
             /\ getNextState(noticeStates[n], NewEntry.event) = noticeStates'[n]
             /\ evaluateGuards(noticeStates[n], noticeStates'[n],
                               [event |-> NewEntry.event,
                                timestamp |-> NewEntry.timestamp,
                                userRole |-> NewEntry.userRole,
                                scheduledTime |-> NewEntry.scheduledTime],
                               noticeContexts[n]).allowed]_vars

\* C2: a call of transition() with a (state, event) pair that the table does
\* not hold, for any role and timestamp, leaves every current state as it
\* was and appends one entry with isValid = FALSE and fromState = toState =
\* the state of the notice.
C2_AbsentPairRejected ==
    [][(/\ Attempted
        /\ <<noticeStates[NewEntry.noticeId], NewEntry.event>>
              \notin DOMAIN transitionTable) =>
          /\ noticeStates' = noticeStates
          /\ stateLog' = Append(stateLog, NewEntry)
          /\ NewEntry.isValid = FALSE
          /\ NewEntry.fromState = noticeStates[NewEntry.noticeId]
          /\ NewEntry.toState = noticeStates[NewEntry.noticeId]]_vars

\* an expired notice was sent an event the table does not hold for EXPIRED
C2_Witness ==
    /\ stateLog # << >>
    /\ IsAttempt(LastEntry)
    /\ <<LastEntry.fromState, LastEntry.event>> \notin DOMAIN transitionTable
    /\ LastEntry.isValid = FALSE
    /\ LastEntry.noticeId \in Known
    /\ noticeStates[LastEntry.noticeId] = EXPIRED
    /\ LastEntry.fromState = EXPIRED
    /\ LastEntry.toState = EXPIRED

\* C3: transition() on a known notice appends exactly one record, the one it
\* returns, whatever its outcome; and no step modifies, reorders or removes
\* a record: the log, and each notice's history, only grow at the end.
C3_LogAppendOnly ==
    [][/\ (ret'.kind = "return" /\ (ret' # ret \/ stateLog' # stateLog)) =>
             stateLog' = Append(stateLog, ret'.value)
       /\ IsPrefix(stateLog, stateLog')
       /\ \A n \in NoticeIds :
             IsPrefix(HistoryOf(stateLog, n), HistoryOf(stateLog', n))]_vars

\* the log holds a successful transition, one refused by a guard and one
\* refused by the table
C3_Witness ==
    \E i, j, k \in 1 .. Len(stateLog) :
        /\ i < j /\ j < k
        /\ IsAttempt(stateLog[i]) /\ stateLog[i].isValid
        /\ stateLog[j].isValid = FALSE /\ stateLog[j].reason = ReasonActivate
        /\ stateLog[k].isValid = FALSE /\ stateLog[k].reason = ReasonInvalid(stateLog[k].fromState, stateLog[k].event)

\* C4: a call that the table allows and a guard refuses leaves every context
\* (currentState, lastModifiedAt, visibleFrom) and every current state as
\* they were; transition() changes a context only when it succeeds, and
\* then sets the notice's state and its context's currentState to the
\* table's target and lastModifiedAt to the input's timestamp, and moves
\* visibleFrom only on a schedule that carries a time.
C4_GuardRejectionKeepsContext ==
    [][Attempted =>
          LET n == NewEntry.noticeId
              target == getNextState(noticeStates[n], NewEntry.event)
          IN  /\ (target # Null /\ NewEntry.isValid = FALSE) =>
                    /\ noticeContexts' = noticeContexts
                    /\ noticeStates' = noticeStates
              /\ noticeContexts' # noticeContexts => NewEntry.isValid
              /\ NewEntry.isValid =>
                    /\ target # Null
                    /\ noticeStates'[n] = target
                    /\ noticeContexts'[n].currentState = target
                    /\ noticeContexts'[n].lastModifiedAt = NewEntry.timestamp
                    /\ noticeContexts'[n].visibleUntil = noticeContexts[n].visibleUntil
                    /\ (~ (target = SCHEDULED /\ NewEntry.scheduledTime # NoDate)) =>
                          noticeContexts'[n].visibleFrom = noticeContexts[n].visibleFrom]_vars

\* a reinstate was refused by a guard 31 days after the notice was archived:
\* the context still carries the day of the archival
C4_Witness ==
    /\ stateLog # << >>
    /\ LastEntry.isValid = FALSE
    /\ LastEntry.event = REINSTATE
    /\ LastEntry.reason = ReasonReinstate
    /\ LastEntry.timestamp = 31
    /\ noticeStates[LastEntry.noticeId] = ARCHIVED
    /\ noticeContexts[LastEntry.noticeId].currentState = ARCHIVED
    /\ noticeContexts[LastEntry.noticeId].lastModifiedAt = 0

\* the table as the specification lists it
ListedTable ==
    { <<DRAFT, SUBMIT, SUBMITTED>>, <<DRAFT, UPDATE, DRAFT>>,
      <<DRAFT, ARCHIVE, ARCHIVED>>,
      <<SUBMITTED, APPROVE, MODERATION_PENDING>>, <<SUBMITTED, REJECT, REJECTED>>,
      <<SUBMITTED, UPDATE, DRAFT>>,
      <<MODERATION_PENDING, APPROVE, APPROVED>>,
      <<MODERATION_PENDING, REJECT, REJECTED>>,
      <<APPROVED, SCHEDULE, SCHEDULED>>, <<APPROVED, ACTIVATE, ACTIVE>>,
      <<APPROVED, REJECT, REJECTED>>,
      <<SCHEDULED, ACTIVATE, ACTIVE>>, <<SCHEDULED, REJECT, REJECTED>>,
      <<ACTIVE, EXPIRE, EXPIRED>>, <<ACTIVE, ARCHIVE, ARCHIVED>>,
      <<EXPIRED, ARCHIVE, ARCHIVED>>, <<EXPIRED, REINSTATE, REINSTATED>>,
      <<ARCHIVED, REINSTATE, REINSTATED>>,
      <<REINSTATED, APPROVE, APPROVED>>, <<REINSTATED, ARCHIVE, ARCHIVED>>,
      <<REJECTED, REINSTATE, REINSTATED>> }

\* the listed targets of a state and an event: one, or none
ListedTargets(s, e) == {t \in NoticeState : <<s, e, t>> \in ListedTable}

\* C5: over the 10 states and 9 events the next state is defined for the 21
\* listed pairs, with the listed target and no other, and undefined for any
\* other pair: so it is for the state of every notice, whichever of the 10
\* it is in, and every successful transition in the log is one of the 21.
C5_TableAsListed ==
    /\ Cardinality(DOMAIN transitionTable) = Cardinality(ListedTable)
    /\ \A n \in Known : \A e \in NoticeEvent :
          IF ListedTargets(noticeStates[n], e) = {}
          THEN getNextState(noticeStates[n], e) = Null
          ELSE ListedTargets(noticeStates[n], e) = {getNextState(noticeStates[n], e)}
    /\ stateLog # << >> /\ IsAttempt(LastEntry) /\ LastEntry.isValid =>
          <<LastEntry.fromState, LastEntry.event, LastEntry.toState>> \in ListedTable

\* a rejected notice was reinstated: the last pair of the list was used
C5_Witness ==
    /\ stateLog # << >>
    /\ IsAttempt(LastEntry)
    /\ LastEntry.isValid
    /\ LastEntry.fromState = REJECTED
    /\ LastEntry.event = REINSTATE
    /\ noticeStates[LastEntry.noticeId] = REINSTATED

\* the role conditions as the specification states them
RoleForbidden(event, userRole) ==
    \/ event \in {APPROVE, REJECT} /\ userRole \notin {MODERATOR, ADMIN}
    \/ event = REINSTATE /\ userRole # ADMIN
    \/ event = SUBMIT /\ userRole = USER

\* C6: in every reachable state a call whose role may not use its event
\* (approve or reject without being moderator or admin, reinstate without
\* being admin, submit as 'user') is recorded with isValid = FALSE and
\* changes no state.
C6_RoleGuards ==
    [][(Attempted /\ RoleForbidden(NewEntry.event, NewEntry.userRole)) =>
          /\ NewEntry.isValid = FALSE
          /\ NewEntry.toState = NewEntry.fromState
          /\ noticeStates' = noticeStates]_vars

\* a moderator tried to reinstate a rejected notice and was refused
C6_Witness ==
    /\ stateLog # << >>
    /\ LastEntry.fromState = REJECTED
    /\ LastEntry.event = REINSTATE
    /\ LastEntry.userRole = MODERATOR
    /\ LastEntry.isValid = FALSE
    /\ noticeStates[LastEntry.noticeId] = REJECTED

\* C7: for a notice in APPROVED or SCHEDULED with visibleFrom set, activate
\* with a timestamp before visibleFrom is refused with the temporal reason
\* and changes no state, and the same call (any actor) with a timestamp at
\* or after visibleFrom succeeds and makes the notice ACTIVE; expire on an
\* ACTIVE notice is refused while the timestamp is before visibleUntil.
C7_TemporalGuards ==
    [][Attempted =>
          LET n == NewEntry.noticeId
              ctx == noticeContexts[n]
          IN  /\ (/\ noticeStates[n] \in {APPROVED, SCHEDULED}
                  /\ NewEntry.event = ACTIVATE
                  /\ ctx.visibleFrom # NoDate) =>
                    IF NewEntry.timestamp < ctx.visibleFrom
                    THEN /\ NewEntry.isValid = FALSE
                         /\ NewEntry.reason = ReasonActivate
                         /\ noticeStates' = noticeStates
                    ELSE /\ NewEntry.isValid
                         /\ NewEntry.toState = ACTIVE
                         /\ noticeStates'[n] = ACTIVE
              /\ (/\ noticeStates[n] = ACTIVE
                  /\ NewEntry.event = EXPIRE
                  /\ ctx.visibleUntil # NoDate
                  /\ NewEntry.timestamp < ctx.visibleUntil) =>
                    /\ NewEntry.isValid = FALSE
                    /\ NewEntry.reason = ReasonExpire
                    /\ noticeStates' = noticeStates]_vars

\* an activate was refused before visibleFrom, and the same call by the same
\* actor on the day of visibleFrom made the notice ACTIVE
C7_Witness ==
    \E i, j \in 1 .. Len(stateLog) :
        /\ i < j
        /\ stateLog[i].event = ACTIVATE /\ stateLog[j].event = ACTIVATE
        /\ stateLog[i].noticeId = stateLog[j].noticeId
        /\ stateLog[i].userRole = stateLog[j].userRole
        /\ stateLog[i].isValid = FALSE /\ stateLog[i].reason = ReasonActivate
        /\ stateLog[i].timestamp < noticeContexts[stateLog[i].noticeId].visibleFrom
        /\ stateLog[j].isValid /\ stateLog[j].toState = ACTIVE
        /\ stateLog[j].timestamp = noticeContexts[stateLog[j].noticeId].visibleFrom
        /\ noticeStates[stateLog[j].noticeId] = ACTIVE

\* C8: when a reinstate is attempted on an ARCHIVED notice more than 30 days
\* after its lastModifiedAt, a moderator is refused with the reason that
\* cites the 30-day admin-only window, and an admin succeeds and the notice
\* becomes REINSTATED.
C8_ThirtyDayReasonForModerator ==
    [][(/\ Attempted
        /\ noticeStates[NewEntry.noticeId] = ARCHIVED
        /\ NewEntry.event = REINSTATE
        /\ NewEntry.timestamp - noticeContexts[NewEntry.noticeId].lastModifiedAt
              > ArchiveWindowDays) =>
          /\ NewEntry.userRole = MODERATOR =>
                /\ NewEntry.isValid = FALSE
                /\ NewEntry.reason = ReasonArchived30
                /\ noticeStates'[NewEntry.noticeId] = ARCHIVED
          /\ NewEntry.userRole = ADMIN =>
                /\ NewEntry.isValid
                /\ noticeStates'[NewEntry.noticeId] = REINSTATED]_vars

\* C9: for every notice, role and time, getValidTransitions holds exactly
\* the events with which transition(), called at that time by that role,
\* succeeds, and canTransition is true of exactly those: a call succeeds if
\* and only if the two queries, made just before it, offered its event; for
\* an id that transition() does not know, they offer nothing.
C9_ValidTransitionsExact ==
    [][/\ Attempted =>
             /\ NewEntry.isValid <=>
                   NewEntry.event
                      \in getValidTransitions(NewEntry.noticeId, NewEntry.userRole)
             /\ NewEntry.isValid <=>
                   canTransition(NewEntry.noticeId, NewEntry.event, NewEntry.userRole)
       /\ \A n \in NoticeIds \ Known : \A userRole \in Roles :
             /\ getValidTransitions(n, userRole) = {}
             /\ \A e \in NoticeEvent : ~ canTransition(n, e, userRole)]_vars

\* an approved notice before its visibleFrom: activate is offered to nobody,
\* reject to the moderator only; an activate by the admin was just refused
C9_Witness ==
    /\ "n1" \in Known
    /\ noticeStates["n1"] = APPROVED
    /\ noticeContexts["n1"].visibleFrom # NoDate
    /\ now < noticeContexts["n1"].visibleFrom
    /\ getValidTransitions("n1", MODERATOR) = {SCHEDULE, REJECT}
    /\ getValidTransitions("n1", PUBLISHER) = {SCHEDULE}
    /\ ~ canTransition("n1", ACTIVATE, ADMIN)
    /\ getValidTransitions("n2", ADMIN) = {}
    /\ LastEntry.event = ACTIVATE /\ LastEntry.userRole = ADMIN
    /\ LastEntry.timestamp = now /\ LastEntry.isValid = FALSE

\* the id a call of transition() was made with, read off its answer r: the
\* returned record carries it, the thrown Error's message names it
Callee(r) ==
    IF r.kind = "return" THEN r.value.noticeId
    ELSE CHOOSE n \in NoticeIds : r.error \in {NotFound(n), ContextNotFound(n)}

\* a step in which transition() answered a call on an id it does not know
AnsweredUnknown ==
    ret' # ret /\ ret'.kind # "none" /\ Callee(ret') \notin Known

\* C10: a transition() call on an unknown id gives its caller a returned
\* Not-found value, never a thrown fault, and leaves the notice states and
\* the log as they were.
C10_NotFoundIsReturned ==
    [][AnsweredUnknown =>
          /\ ret'.kind = "return"
          /\ UNCHANGED <<noticeStates, stateLog>>]_vars

\* C10, amended: a transition() call on an unknown id throws the Error
\* 'Notice <id> not found' to its caller, and leaves the states, the
\* contexts and the log as they were; only a call on a known id returns.
C10_UnknownIdThrows ==
    [][/\ AnsweredUnknown =>
             /\ ret' = Thrown(NotFound(Callee(ret')))
             /\ UNCHANGED <<noticeStates, noticeContexts, stateLog>>
       /\ (ret' # ret /\ ret'.kind = "throw") => Callee(ret') \notin Known]_vars

\* a call on the unknown "n2" threw, beside a known notice
C10_Witness ==
    /\ ret = Thrown(NotFound("n2"))
    /\ "n2" \notin Known
    /\ "n1" \in Known
    /\ stateLog # << >>

\* C11: each transition() call takes effect as one atomic step: when it
\* returns or throws, the collections are what the whole call makes of the
\* collections it found when it started, so no other call's read, write or
\* log append fell between its own, and the final state and log are those
\* of the calls applied one at a time in the order they ran; and at no time
\* are two calls in progress.
C11_TransitionIsAtomic ==
    [][/\ \A r \in Requests :
             (calls[r].pc # "done" /\ calls'[r].pc = "done") =>
                LET whole == transition(calls[r].before, calls[r].noticeId,
                                        calls[r].input)
                IN  /\ noticeStates' = whole.machine.noticeStates
                    /\ noticeContexts' = whole.machine.noticeContexts
                    /\ stateLog' = whole.machine.stateLog
                    /\ ret' = whole.ret
       /\ Cardinality({r \in Requests :
                          calls'[r].pc \notin {"idle", "done"}}) <= 1]_vars

\* two requests on the same notice have both returned, the second one
\* refused by the state the first one left
C11_Witness ==
    /\ \A r \in Requests : calls[r].pc = "done"
    /\ calls[1].noticeId = "n1" /\ calls[2].noticeId = "n1"
    /\ calls[1].transition.isValid
    /\ calls[1].transition.toState = SUBMITTED
    /\ calls[2].input.event = SUBMIT
    /\ calls[2].transition.isValid = FALSE
    /\ calls[2].transition.fromState = SUBMITTED
    /\ Len(stateLog) = 3

\* the pending queue emptied by repeated getNextNotice calls: the notices
\* in the order they come out
RECURSIVE Drain(_)
Drain(queue) ==
    IF Len(queue) = 0 THEN << >>
    ELSE <<getNextNotice(queue).notice>> \o Drain(getNextNotice(queue).queue)

\* C12: whatever calls came before, repeatedly calling getNextNotice until
\* the queue is empty yields the notices in non-decreasing priority
\* ordinal, ties in non-decreasing visibleFrom.
C12_DrainIsOrdered ==
    LET out == Drain(dispatchQueue)
    IN  \A i \in 1 .. (Len(out) - 1) :
           \/ out[i].priority < out[i + 1].priority
           \/ /\ out[i].priority = out[i + 1].priority
              /\ out[i].visibleFrom <= out[i + 1].visibleFrom


\* the ids of the notices waiting in the pending queue
Pending == {dispatchQueue[i].noticeId : i \in 1 .. Len(dispatchQueue)}

\* the notices a step activates: they enter the active set
Activated == (DOMAIN activeNotices') \ (DOMAIN activeNotices)

\* C13: once a notice has been activated (by the wheel tick, by the full
\* scan or by preemptWithEmergency) the pending queue holds no entry with its
\* id, so that no later tick or scan can activate it again.
C13_ActivatedLeavesQueue ==
    [][\A noticeId \in Activated : noticeId \notin Pending']_vars


\* the step is a call preemptWithEmergency(notice) by some client
Preempts(notice) == FreeStep /\ Free(DoPreempt(notice))

\* the elements of seq
Range(seq) == {seq[i] : i \in 1 .. Len(seq)}

\* C14: whatever a channel's buffer held before (nothing, some notices or
\* bufferSize notices), right after preemptWithEmergency returns the
\* emergency notice is the first element of the buffer of every channel it
\* lists: putting it at the head did not evict it.
C14_EmergencyHeadsEveryChannel ==
    [][Preempts(NoticeE) =>
          \A displayId \in Range(NoticeE.channels) :
             /\ displayId \in DOMAIN displayBuffers'
             /\ Len(displayBuffers'[displayId]) > 0
             /\ displayBuffers'[displayId][1].noticeId = NoticeE.noticeId]_vars


\* C15: preemptWithEmergency with a notice that is not EMERGENCY throws
\* 'Only emergency notices can preempt' and leaves the pending queue, the
\* active set, the channel buffers, the delivery checkpoints and the wheel
\* as they were.
C15_NonEmergencyPreemptRejected ==
    [][Preempts(NoticeA) =>
          /\ thrown' = Thrown(OnlyEmergency)
          /\ dispatchQueue' = dispatchQueue
          /\ activeNotices' = activeNotices
          /\ displayBuffers' = displayBuffers
          /\ deliveryCheckpoints' = deliveryCheckpoints
          /\ timerWheel' = timerWheel
          /\ currentTick' = currentTick]_vars

\* a NORMAL notice was refused while notices were pending, active and
\* buffered
C15_Witness ==
    /\ thrown = Thrown(OnlyEmergency)
    /\ Len(dispatchQueue) > 0
    /\ DOMAIN activeNotices # {}
    /\ DOMAIN displayBuffers # {}
    /\ DOMAIN deliveryCheckpoints # {}


\* the plan starts with k wheel ticks: every later call is made k seconds
\* or more after the scheduler was built
LeadingTicks(k) == \A i \in 1 .. k : i <= Len(Plan) /\ Plan[i] = DoTick

\* every scheduleNotice(notice) of this behaviour is called when the
\* notice's window is already over
ExpiredOnArrival(notice) == LeadingTicks(notice.visibleUntil - StartTime)

\* the notice has a checkpoint
HasCheckpoint(noticeId) ==
    \E targetId \in DOMAIN deliveryCheckpoints :
       \E i \in 1 .. Len(deliveryCheckpoints[targetId]) :
          deliveryCheckpoints[targetId][i].noticeVersionId = noticeId

\* the notice is in a channel buffer
Buffered(noticeId) ==
    \E displayId \in DOMAIN displayBuffers :
       \E i \in 1 .. Len(displayBuffers[displayId]) :
          displayBuffers[displayId][i].noticeId = noticeId

\* C16: a notice whose window is already over when scheduleNotice is called
\* is accepted but stays inert: whatever ticks, scans and cleanups follow,
\* it never enters the active set, gets no delivery checkpoint and is put
\* into no channel buffer.
C16_ExpiredNeverActivates ==
    ExpiredOnArrival(NoticeX) =>
       /\ NoticeX.noticeId \notin DOMAIN activeNotices
       /\ ~ HasCheckpoint(NoticeX.noticeId)
       /\ ~ Buffered(NoticeX.noticeId)


\* the step is a call scheduleNotice(notice) by some client
Schedules(notice) == FreeStep /\ Free(DoSchedule(notice))

\* the notice's window overlaps a recorded blackout interval
InBlackout(S, notice) == isBlackoutPeriod(S, notice.visibleFrom, notice.visibleUntil)

\* C17: a recorded blackout interval vetoes scheduling and activation: a
\* scheduleNotice call whose window overlaps an interval added by
\* addBlackoutPeriod is refused (the notice is not taken into the queue or
\* the wheel), and no notice whose window overlaps a recorded blackout
\* interval is activated.
C17_BlackoutVetoes ==
    [][/\ \A notice \in FreeNotices :
             (Schedules(notice) /\ InBlackout(Scheduler, notice)) =>
                /\ dispatchQueue' = dispatchQueue
                /\ timerWheel' = timerWheel
       /\ \A noticeId \in Activated :
             ~ InBlackout(Scheduler, activeNotices'[noticeId])]_vars


\* the notices clients hand to the scheduler
Notices == FreeNotices \cup {Filler} \cup {Ranked(k) : k \in 1 .. 7}

\* the scheduled notice a checkpoint's noticeVersionId names
NoticeOf(noticeId) == CHOOSE notice \in Notices : notice.noticeId = noticeId

\* every checkpoint, with its target
Checkpoints ==
    UNION {{[targetId |-> targetId, index |-> i,
             checkpoint |-> deliveryCheckpoints[targetId][i]] :
               i \in 1 .. Len(deliveryCheckpoints[targetId])} :
              targetId \in DOMAIN deliveryCheckpoints}

\* C18: whatever maxRetries the caller passed with the notice and whatever
\* updateDeliveryStatus calls were made, the attempts of a delivery
\* checkpoint never exceed the maxRetries of the notice it belongs to.
C18_AttemptsWithinMaxRetries ==
    \A c \in Checkpoints :
       c.checkpoint.attempts <= NoticeOf(c.checkpoint.noticeVersionId).maxRetries


\* the checkpoint has used up the retries of its notice
Exhausted(checkpoint) ==
    /\ checkpoint.status = "failed"
    /\ checkpoint.attempts = NoticeOf(checkpoint.noticeVersionId).maxRetries

\* C19: retry exhaustion is terminal: once the attempts of a checkpoint
\* equal maxRetries its status stays 'failed' whatever updateDeliveryStatus
\* reports later, and getRetriesNeeded does not return it again.
C19_ExhaustionIsTerminal ==
    [][\A c \in Checkpoints :
          Exhausted(c.checkpoint) =>
             /\ deliveryCheckpoints'[c.targetId][c.index].status = "failed"
             /\ <<c.targetId, c.checkpoint.noticeVersionId>>
                   \notin getRetriesNeeded(Scheduler', wallClock')]_vars


\* C20: there is at most one delivery checkpoint for a target and a notice:
\* no sequence of scheduleNotice, preemptWithEmergency, wheel ticks and
\* scans leaves two checkpoints with the same targetId and noticeVersionId.
C20_OneCheckpointPerPair ==
    \A c, d \in Checkpoints :
       (/\ c.targetId = d.targetId
        /\ c.checkpoint.noticeVersionId = d.checkpoint.noticeVersionId)
          => c.index = d.index


\* the step is a call getDisplayNotices(displayId) by some display
Displayed(displayId) == FreeStep /\ Free(DoDisplay(displayId))

\* the positions of the buffer whose window includes the time t
VisibleAt(buffer, t) ==
    {i \in 1 .. Len(buffer) :
        buffer[i].visibleFrom <= t /\ t < buffer[i].visibleUntil}

\* the k-th of the positions, in the order of the buffer
KthOf(positions, k) ==
    CHOOSE i \in positions : Cardinality({j \in positions : j <= i}) = k

\* the entries of the buffer at the positions, in the order of the buffer
EntriesAt(buffer, positions) ==
    [k \in 1 .. Cardinality(positions) |-> buffer[KthOf(positions, k)]]

\* C21: getDisplayNotices(channelId) returns, in the order of the buffer,
\* exactly the entries of the channel's buffer with
\* visibleFrom <= now < visibleUntil, an empty list for a channel without
\* buffer, and leaves the buffers as they are: expired entries stay.
C21_DisplayReadsVisibleWindow ==
    [][\A displayId \in Displays :
          Displayed(displayId) =>
             /\ displayBuffers' = displayBuffers
             /\ thrown' =
                   ReturnedArray(
                      IF displayId \in DOMAIN displayBuffers
                      THEN EntriesAt(displayBuffers[displayId],
                                     VisibleAt(displayBuffers[displayId], wallClock))
                      ELSE << >>)]_vars

\* a display was given less than its buffer holds: an expired entry was
\* left out and stays in the buffer
C21_Witness ==
    /\ thrown.kind = "array"
    /\ Len(thrown.value) > 0
    /\ \E displayId \in DOMAIN displayBuffers :
          /\ Len(displayBuffers[displayId]) > Len(thrown.value)
          /\ thrown.value =
                EntriesAt(displayBuffers[displayId],
                          VisibleAt(displayBuffers[displayId], wallClock))


\* the registered users
Registered(A) == DOMAIN A.userAttributes

\* the user's value is among the listed ones, or none is listed
Admits(values, value) == values = {} \/ value \in values

\* the reference result: the intersection, over the dimensions that are
\* not empty in the rule, of the unions of the membership sets of the
\* listed values, restricted to the users with one of the rule's tags
ReferenceEligible(A, rule) ==
    {userId \in Registered(A) :
        /\ Admits(rule.departments, A.userAttributes[userId].department)
        /\ Admits(rule.roles, A.userAttributes[userId].role)
        /\ Admits(rule.locations, A.userAttributes[userId].location)
        /\ rule.tags = {} \/ A.userAttributes[userId].tags \cap rule.tags # {}}

\* C23: for every set of registered users and every rule,
\* findEligibleUsers(rule) is the reference result; in particular a
\* dimension that is not empty and whose values match no user makes the
\* result empty.
C23_EligibleIsIntersectionOfUnions ==
    audienceRet.kind = "array" =>
       Range(audienceRet.value) = ReferenceEligible(audienceService, audienceRet.rule)


\* the rule with the value added to the dimension
WithValue(rule, dimension, value) ==
    [rule EXCEPT ![dimension] = @ \cup {value}]

\* the values a dimension can list
ValuesOf(dimension) ==
    CASE dimension = "departments" -> Departments
      [] dimension = "roles" -> RolesHeld
      [] dimension = "locations" -> Locations

\* C24: eligibility is monotonic in each criteria dimension: for a fixed
\* tag filter, adding a value to the departments, roles or locations of a
\* rule never removes a user findEligibleUsers returned for the rule.  The
\* formula states it for the dimensions that already list a value: a
\* dimension that lists none does not constrain the result, so that giving
\* it a first value narrows the result by the definition of eligibility.
C24_EligibilityIsMonotonic ==
    audienceRet.kind = "array" =>
       \A dimension \in {"departments", "roles", "locations"} :
          audienceRet.rule[dimension] # {} =>
             \A value \in ValuesOf(dimension) :
                Range(audienceRet.value) \subseteq
                   Range(findEligibleUsers(audienceService,
                            WithValue(audienceRet.rule, dimension, value)))


\* C25: the seen-set has no false negatives: once markNoticeSeen(u, n) was
\* called, hasUserSeenNotice(u, n) is true, at once and after every later
\* markNoticeSeen, registerUser and query.
C25_NoFalseNegatives ==
    /\ \A pair \in marked :
          hasUserSeenNotice(audienceService, bloomHash, pair[1], pair[2])
    /\ (/\ audienceRet.kind = "return"
        /\ <<audienceRet.userId, audienceRet.noticeId>> \in marked)
          => audienceRet.value

\* a marked pair was asked for after another pair had been marked and a
\* user had registered
C25_Witness ==
    /\ audienceRet.kind = "return"
    /\ audienceRet.value
    /\ <<audienceRet.userId, audienceRet.noticeId>> \in marked
    /\ Cardinality(marked) > 1
    /\ DOMAIN audienceService.userAttributes # {}


\* the step runs a periodic task of the scheduler
PeriodicTask == FreeStep /\ (Free(DoTick) \/ Free(DoScan) \/ Free(DoCleanup))

\* shutdown() has been called
ShutDown == timers.schedulerJob = "stopped" /\ timers.cleanupJob = "stopped"

\* C27: after shutdown() none of the scheduler's periodic tasks runs
\* again: no wheel tick, scan or cleanup changes the scheduler's state.
C27_NoTaskAfterShutdown ==
    [][(ShutDown /\ PeriodicTask) => UNCHANGED schedulerFields]_vars

\* the ordinal of a priority of the API: lower is more urgent
Ordinal(priority) ==
    CASE priority = "EMERGENCY" -> 0
      [] priority = "URGENT" -> 1
      [] priority = "HIGH" -> 2
      [] priority = "NORMAL" -> 3
      [] priority = "LOW" -> 4

\* the notices a step initializes in the machine
Initialized == (DOMAIN noticeContexts') \ (DOMAIN noticeContexts)

\* the units a step of the approve route hands to scheduleNotice
Handed ==
    IF Len(timeIntervals') > Len(timeIntervals)
    THEN Range(dispatchQueue') \ Range(dispatchQueue)
    ELSE {}

\* C28: a notice created with priority EMERGENCY, URGENT, HIGH, NORMAL or LOW
\* gets the ordinal 0, 1, 2, 3 or 4 in its lifecycle context when the create
\* route initializes it, and the unit the approve route hands to the
\* scheduler has the ordinal of the priority stored for the notice.
C28_PriorityOrdinals ==
    [][/\ \A id \in Initialized :
             noticeContexts'[id].priority = Ordinal(prismaNotices[id].priority)
       /\ \A unit \in Handed :
             unit.priority = Ordinal(prismaNotices[unit.noticeId].priority)]_vars

\* the notices some channel buffer holds
InSomeBuffer ==
    UNION {{displayBuffers[channel][k].noticeId :
               k \in 1 .. Len(displayBuffers[channel])} :
           channel \in DOMAIN displayBuffers}

\* the log has a valid transition of the notice into APPROVED
LoggedApproval(noticeId) ==
    \E k \in 1 .. Len(stateLog) :
       /\ stateLog[k].noticeId = noticeId
       /\ stateLog[k].isValid
       /\ stateLog[k].toState = APPROVED

QueuedUnits(queue, noticeId) ==
    Cardinality({k \in 1 .. Len(queue) : queue[k].noticeId = noticeId})

\* the notices the lifecycle machine holds in REJECTED
HeldRejected == {noticeId \in DOMAIN noticeStates : noticeStates[noticeId] = REJECTED}

ActiveByTimer(noticeId) ==
    /\ noticeId \in DOMAIN activeNotices
    /\ activeNotices[noticeId].maxRetries = 3

\* the lifecycle machine holds the notice in ACTIVE
HeldActive(noticeId) ==
    /\ noticeId \in DOMAIN noticeStates
    /\ noticeStates[noticeId] = ACTIVE

HeldUnits ==
    Range(dispatchQueue)
       \cup UNION {Range(timerWheel[slot]) : slot \in DOMAIN timerWheel}
       \cup {activeNotices[noticeId] : noticeId \in DOMAIN activeNotices}
       \cup UNION {Range(displayBuffers[channel]) : channel \in DOMAIN displayBuffers}

\* the audiences the scheduler holds, place by place
HeldAudiences ==
    [queue |-> [k \in 1 .. Len(dispatchQueue) |-> dispatchQueue[k].targetAudience],
     wheel |-> [slot \in DOMAIN timerWheel |->
                   [k \in 1 .. Len(timerWheel[slot]) |->
                       timerWheel[slot][k].targetAudience]],
     active |-> [noticeId \in DOMAIN activeNotices |->
                    activeNotices[noticeId].targetAudience],
     buffers |-> [channel \in DOMAIN displayBuffers |->
                     [k \in 1 .. Len(displayBuffers[channel]) |->
                         displayBuffers[channel][k].targetAudience]]]

\* what the rule stored for the notice yields now
ResolvedNow(noticeId) ==
    findEligibleUsers(audienceService, getAudienceRule(audienceService, noticeId))

\* a registerUser call takes effect in the step
Registers == audienceService'.userAttributes # audienceService.userAttributes

\* C26: the audience of a unit is resolved at the approval, from the rule
\* stored for the notice and the users registered then; once the unit is
\* handed to scheduleNotice, no registerUser call (a new user, or new
\* attributes of a known one) changes the targetAudience the scheduler
\* holds in its queue, its wheel, its active set or its channel buffers.
C26_AudienceResolvedOnce ==
    [][/\ \A unit \in Handed :
             unit.noticeId \in DOMAIN audienceService.noticeEligibility
                => unit.targetAudience = ResolvedNow(unit.noticeId)
       /\ Registers => HeldAudiences' = HeldAudiences]_vars

\* a unit is held whose audience, resolved at its approval, is no longer
\* what its rule yields: a user has registered since
C26_Witness ==
    \E unit \in HeldUnits :
       /\ unit.noticeId \in DOMAIN audienceService.noticeEligibility
       /\ unit.maxRetries = 3
       /\ unit.targetAudience # ResolvedNow(unit.noticeId)

\* the states the specification calls near-terminal
NearTerminal == {ARCHIVED, REJECTED}

\* C37: a notice in ARCHIVED or REJECTED keeps its state under every call of
\* transition(), except a reinstate by an admin that succeeds, and that
\* call moves it to REINSTATED and nowhere else.
C37_NearTerminalUntilReinstated ==
    [][Attempted =>
          \A n \in Known :
             noticeStates[n] \in NearTerminal =>
                \/ noticeStates'[n] = noticeStates[n]
                \/ /\ noticeStates'[n] = REINSTATED
                   /\ NewEntry.noticeId = n
                   /\ NewEntry.event = REINSTATE
                   /\ NewEntry.userRole = ADMIN
                   /\ NewEntry.isValid]_vars

\* a rejected notice has been reinstated by an admin, after which the log
\* holds its way out of REJECTED
C37_Witness ==
    /\ stateLog # << >>
    /\ LastEntry.fromState = REJECTED
    /\ LastEntry.toState = REINSTATED
    /\ LastEntry.isValid
    /\ noticeStates[LastEntry.noticeId] = REINSTATED

\* the roles that moderate
Moderators == {MODERATOR, ADMIN}

\* the k-th entry of the log is a valid approve of the notice into APPROVED
\* by a moderator or an admin
ModeratedAt(k, noticeId) ==
    /\ stateLog[k].noticeId = noticeId
    /\ stateLog[k].isValid
    /\ stateLog[k].event = APPROVE
    /\ stateLog[k].toState = APPROVED
    /\ stateLog[k].userRole \in Moderators

\* the k-th entry of the log is a valid transition into ACTIVE
ActivatedAt(k) ==
    /\ IsAttempt(stateLog[k])
    /\ stateLog[k].isValid
    /\ stateLog[k].toState = ACTIVE

\* C38: in the log of every notice, a valid transition into ACTIVE comes
\* after a valid approve into APPROVED made by a moderator or an admin.
C38_ActiveOnlyAfterModeration ==
    \A k \in 1 .. Len(stateLog) :
       ActivatedAt(k) =>
          \E j \in 1 .. (k - 1) : ModeratedAt(j, stateLog[k].noticeId)

\* a notice has been activated
C38_Witness ==
    \E k \in 1 .. Len(stateLog) :
       /\ ActivatedAt(k)
       /\ noticeStates[stateLog[k].noticeId] = ACTIVE

----------------------------------------------------------------------------
(* validateFSM: the structural validation of the table                     *)

\* the number of addTransition calls a table under validation may lack
MaxRemoved == 2

\* Object.values(NoticeState), in the enum's order
StateOrder ==
    <<DRAFT, SUBMITTED, MODERATION_PENDING, APPROVED, REJECTED,
      SCHEDULED, ACTIVE, EXPIRED, ARCHIVED, REINSTATED>>

\* the tables validateFSM may be given: the constructor's calls in their
\* order, some of them left out. A Map iterates in insertion order, so the
\* sequence of calls is the table together with its iteration order.
KeptCalls ==
    {kept \in SUBSET (1 .. Len(TableEntries)) :
        Cardinality(kept) >= Len(TableEntries) - MaxRemoved}

EntriesOf(kept) ==
    LET Keep(e) == \E i \in kept : TableEntries[i] = e
    IN  SelectSeq(TableEntries, Keep)

\* this.transitionTable.get(state): the inner map, here the calls from state
transitionsOf(entries, state) ==
    {i \in 1 .. Len(entries) : entries[i][1] = state}

IssueNoOutgoing(state) == <<"has no outgoing transitions", state>>
IssueUnreachable(state) == <<"is unreachable", state>>

\* one forEach over the table, from its i-th call on: a target is added
\* as soon as its origin is in the set, within the same pass
RECURSIVE forEachTransition(_, _, _)
forEachTransition(entries, reachableStates, i) ==
    IF i > Len(entries) THEN reachableStates
    ELSE forEachTransition(
             entries,
             IF entries[i][1] \in reachableStates
             THEN reachableStates \cup {entries[i][3]}
             ELSE reachableStates,
             i + 1)

\* while (changed): passes until one adds nothing
RECURSIVE whileChanged(_, _)
whileChanged(entries, reachableStates) ==
    LET after == forEachTransition(entries, reachableStates, 1)
    IN  IF after = reachableStates THEN reachableStates
        ELSE whileChanged(entries, after)

RECURSIVE MapSeq(_, _)
MapSeq(Op(_), s) ==
    IF s = << >> THEN << >> ELSE <<Op(Head(s))>> \o MapSeq(Op, Tail(s))

\* variant: the two near-terminal states are not exempted
validateFSM_NoExemption(entries) ==
    LET NoOutgoing(state) == transitionsOf(entries, state) = {}
        reachableStates == whileChanged(entries, {DRAFT})
        Unreachable(state) == state \notin reachableStates
        issues == MapSeq(IssueNoOutgoing, SelectSeq(StateOrder, NoOutgoing))
                  \o MapSeq(IssueUnreachable, SelectSeq(StateOrder, Unreachable))
    IN  [isValid |-> Len(issues) = 0, issues |-> issues]

validateFSM(entries) ==
    LET NoOutgoing(state) ==
            /\ transitionsOf(entries, state) = {}
            /\ state # ARCHIVED
            /\ state # REJECTED
        reachableStates == whileChanged(entries, {DRAFT})
        Unreachable(state) == state \notin reachableStates
        issues == MapSeq(IssueNoOutgoing, SelectSeq(StateOrder, NoOutgoing))
                  \o MapSeq(IssueUnreachable, SelectSeq(StateOrder, Unreachable))
    IN  [isValid |-> Len(issues) = 0, issues |-> issues]

\* a caller validates the machine's table
ValidateFSM ==
    /\ validation.report = NoReport
    /\ validation' = [validation EXCEPT !.report = validateFSM(validation.entries)]
    /\ UNCHANGED <<fsmVars, atomicVars, schedVars, audienceVars, routeVars>>

InitValidate ==
    /\ noticeStates = << >>
    /\ noticeContexts = << >>
    /\ stateLog = << >>
    /\ now = 0
    /\ ret = NoReturn
    /\ driver = [scenario |-> 1, pc |-> 0]
    /\ NoCalls
    /\ SchedulerAtRest
    /\ audienceService = NewAudienceService
    /\ bloomHash = << >>
    /\ audienceRet = [kind |-> "none"]
    /\ marked = {}
    /\ audienceCalls = 0
    /\ RoutesAtRest
    /\ \E kept \in KeptCalls :
           validation = [entries |-> EntriesOf(kept), report |-> NoReport]

NextValidate == ValidateFSM

SpecValidate == InitValidate /\ [][NextValidate]_vars

\* the states some chain of at most k entries leads to from DRAFT
RECURSIVE Within(_, _)
Within(entries, k) ==
    IF k = 0 THEN {DRAFT}
    ELSE LET before == Within(entries, k - 1)
         IN  before \cup {entries[i][3] : i \in {j \in 1 .. Len(entries) :
                                                   entries[j][1] \in before}}

DeadEnds(entries) ==
    {s \in NoticeState \ NearTerminal :
        ~ \E i \in 1 .. Len(entries) : entries[i][1] = s}

Unreached(entries) == NoticeState \ Within(entries, Cardinality(NoticeState))

Validated == validation'.report # validation.report

\* C39: validateFSM reports exactly the states without an outgoing edge,
\* ARCHIVED and REJECTED excepted, and the states outside the closure of the
\* table from DRAFT; it reports nothing for the table the constructor
\* builds, which has an edge out of every state and all ten states in the
\* closure; and it leaves the table as it was.
C39_ValidateReportsDeadAndUnreached ==
    [][Validated =>
        LET entries == validation.entries
            report == validation'.report
        IN  /\ validation'.entries = entries
            /\ Range(report.issues) =
                  {IssueNoOutgoing(s) : s \in DeadEnds(entries)}
                  \cup {IssueUnreachable(s) : s \in Unreached(entries)}
            /\ report.isValid = (DeadEnds(entries) = {} /\ Unreached(entries) = {})
            /\ entries = TableEntries =>
                  /\ report.isValid
                  /\ \A s \in NoticeState \ NearTerminal :
                         transitionsOf(entries, s) # {}
                  /\ Within(entries, Cardinality(NoticeState)) = NoticeState
                  /\ Cardinality(NoticeState) = 10]_vars

C39_Witness ==
    /\ validation.entries = TableEntries
    /\ validation.report # NoReport
    /\ validation.report.isValid

\* the rules that name one value of one attribute
NoRule == [departments |-> {}, roles |-> {}, locations |-> {}, tags |-> {}]
ForDepartment(d) == [NoRule EXCEPT !.departments = {d}]
ForRole(r) == [NoRule EXCEPT !.roles = {r}]
ForLocation(l) == [NoRule EXCEPT !.locations = {l}]
ForTag(t) == [NoRule EXCEPT !.tags = {t}]

SingleRules ==
    {ForDepartment(d) : d \in Departments} \cup {ForRole(r) : r \in RolesHeld}
    \cup {ForLocation(l) : l \in Locations} \cup {ForTag(t) : t \in Tags}

\* the single-value rules a user with these attributes is to match
RulesOf(a) ==
    {ForDepartment(a.department), ForRole(a.role), ForLocation(a.location)}
    \cup {ForTag(t) : t \in a.tags}

Found(A, rule, userId) == userId \in Range(findEligibleUsers(A, rule))

\* audienceService.findEligibleUsers, for a rule naming one value
FindBySingleRule ==
    /\ CallsLeft
    /\ \E rule \in SingleRules :
          audienceRet' = [kind |-> "array", rule |-> rule,
                          value |-> findEligibleUsers(audienceService, rule)]
    /\ audienceCalls' = audienceCalls + 1
    /\ UNCHANGED <<audienceService, bloomHash, marked, fsmVars, atomicVars, schedVars, routeVars, validation>>

\* users are registered again and again, and looked up one value at a time
NextReRegister ==
    \/ RegisterUser
    \/ FindBySingleRule

SpecReRegister == InitTargeting /\ [][NextReRegister]_vars

\* a step of RegisterUser: the only call that returns nothing
Registering == audienceCalls' = audienceCalls + 1 /\ audienceRet' = NoReturn

\* the users whose reported attributes, passed to registerUser, make the step
Latest ==
    {u \in DOMAIN audienceService'.userAttributes :
        audienceService' =
            registerUser(audienceService, getUserAttributes(audienceService', u))}

\* C40: a registration stores the attributes it is given and adds the user
\* to the department, role, location and tags it names, and removes the
\* user from nothing: getUserAttributes reports the attributes of the
\* latest call, every single-value rule naming one of them finds the user,
\* every single-value rule that found the user before the call finds it
\* after, and a user registered before keeps its numeric id.
C40_ReRegistrationKeepsMemberships ==
    [][Registering =>
          /\ Latest # {}
          /\ \A u \in Latest :
                /\ \A rule \in RulesOf(getUserAttributes(audienceService', u)) :
                      Found(audienceService', rule, u)
                /\ \A rule \in SingleRules :
                      Found(audienceService, rule, u) => Found(audienceService', rule, u)
                /\ u \in DOMAIN audienceService.userIdToNumber =>
                      audienceService'.userIdToNumber[u] =
                          audienceService.userIdToNumber[u]]_vars

\* a user registered twice, with another department, role and location and
\* without its tag, is found by the rule of the department it left
C40_Witness ==
    \E u \in DOMAIN audienceService.userAttributes :
       LET a == getUserAttributes(audienceService, u)
       IN  /\ \A rule \in SingleRules : Found(audienceService, rule, u)
           /\ a.tags = {}
           /\ audienceRet.kind = "array"
           /\ audienceRet.rule \in {ForDepartment(d) : d \in Departments \ {a.department}}
           /\ u \in Range(audienceRet.value)

\* a client, of the plan or arbitrary, reports the status of a delivery
Reported(targetId, notice, status) ==
    \/ FreeStep /\ Free(DoStatus(targetId, notice, status))
    \/ /\ ~ PlanOver
       /\ Plan[plan.pc + 1] = DoStatus(targetId, notice, status)
       /\ Play

\* the delays of the first, second and third retry: 1, 2 and 4 minutes
BackoffSeconds == <<60, 120, 240>>

\* the checkpoint the report is about and its attempts are below the limit
Retried(c, targetId, notice, status) ==
    /\ status = "failed"
    /\ c.targetId = targetId
    /\ c.checkpoint.noticeVersionId = notice.noticeId
    /\ c.index = findCheckpoint(deliveryCheckpoints[targetId], notice.noticeId)
    /\ c.checkpoint.attempts < RetryLimit

\* C34: a report of 'failed' for a checkpoint with k attempts, k below the
\* limit of three, sets nextRetryAt to now + 2^k minutes and attempts to
\* k + 1; a report of any other status, and a report for a target or a
\* notice without checkpoint, leaves the attempts and nextRetryAt of every
\* checkpoint as they were, and no report adds or removes a checkpoint.
C34_FailureBacksOffExponentially ==
    [][\A targetId \in Targets, notice \in Notices, status \in DeliveryStatus :
          Reported(targetId, notice, status) =>
             /\ DOMAIN deliveryCheckpoints' = DOMAIN deliveryCheckpoints
             /\ \A t \in DOMAIN deliveryCheckpoints :
                   Len(deliveryCheckpoints'[t]) = Len(deliveryCheckpoints[t])
             /\ \A c \in Checkpoints :
                   LET after == deliveryCheckpoints'[c.targetId][c.index]
                       k == c.checkpoint.attempts
                   IN  IF Retried(c, targetId, notice, status)
                       THEN /\ after.nextRetryAt = wallClock + BackoffSeconds[k + 1]
                            /\ after.attempts = k + 1
                       ELSE /\ after.nextRetryAt = c.checkpoint.nextRetryAt
                            /\ after.attempts = c.checkpoint.attempts]_vars

\* a third failure was reported: the checkpoint is to be retried in four
\* minutes
C34_Witness ==
    \E c \in Checkpoints :
       /\ c.checkpoint.status = "failed"
       /\ c.checkpoint.attempts = RetryLimit
       /\ c.checkpoint.nextRetryAt = c.checkpoint.lastAttemptAt + BackoffSeconds[3]

\* the full scan runs, as a step of the plan or on its own
Scanned ==
    \/ FreeStep /\ Free(DoScan)
    \/ /\ ~ PlanOver
       /\ Plan[plan.pc + 1] = DoScan
       /\ Play

\* the pending notices the scan at the clock's time activates
DueNow(notice) == notice.visibleFrom <= wallClock /\ wallClock < notice.visibleUntil

\* those of them that are not emergencies and go to the channel, in the
\* order of the queue
DueFor(displayId) ==
    LET Goes(notice) ==
           /\ DueNow(notice)
           /\ notice.priority # EMERGENCY
           /\ displayId \in Range(notice.channels)
    IN  SelectSeq(dispatchQueue, Goes)

\* the last n entries of seq, or all of them
LastOf(seq, n) == SubSeq(seq, IF Len(seq) > n THEN Len(seq) - n + 1 ELSE 1, Len(seq))

\* C35: no step leaves more than bufferSize (100) entries in the buffer of
\* a channel; and when a scan activates non-emergency notices into a full
\* buffer each is appended at the tail and the head is evicted for it: the
\* buffer afterwards is the last 100 entries of the old buffer followed by
\* the activated notices, the entries that stay keeping their order; and
\* whatever step changes a full buffer that stays full (a scan, a tick of
\* the wheel) has evicted heads and appended active non-emergency notices.
C35_BufferBoundedOldestEvicted ==
    [][/\ \A displayId \in DOMAIN displayBuffers' :
             Len(displayBuffers'[displayId]) <= bufferSize
       /\ Scanned =>
             \A displayId \in DOMAIN displayBuffers :
                Len(displayBuffers[displayId]) = bufferSize =>
                   displayBuffers'[displayId] =
                      LastOf(displayBuffers[displayId] \o DueFor(displayId),
                             bufferSize)
       /\ \A displayId \in DOMAIN displayBuffers :
             LET buffer == displayBuffers[displayId]
                 after == displayBuffers'[displayId]
             IN  (Len(buffer) = bufferSize /\ Len(after) = bufferSize /\ after # buffer) =>
                    \E m \in 1 .. bufferSize :
                       /\ SubSeq(after, 1, bufferSize - m) = SubSeq(buffer, m + 1, bufferSize)
                       /\ \A j \in (bufferSize - m + 1) .. bufferSize :
                             /\ after[j].priority # EMERGENCY
                             /\ after[j].noticeId \in DOMAIN activeNotices']_vars

\* a normal notice was activated into a full buffer: it is the last entry,
\* after ninety-nine entries that moved up by one
C35_Witness ==
    /\ "web" \in DOMAIN displayBuffers
    /\ Len(displayBuffers["web"]) = bufferSize
    /\ displayBuffers["web"][bufferSize] = NoticeA
    /\ displayBuffers["web"][1] = Filler

\* the cleanup runs, as a step of the plan or on its own
Cleaned ==
    \/ FreeStep /\ Free(DoCleanup)
    \/ /\ ~ PlanOver
       /\ Plan[plan.pc + 1] = DoCleanup
       /\ Play

\* the entries that are not over at the time t, from the first on
RECURSIVE NotOverAt(_, _)
NotOverAt(buffer, t) ==
    IF buffer = << >> THEN << >>
    ELSE (IF Head(buffer).visibleUntil > t THEN <<Head(buffer)>> ELSE << >>)
         \o NotOverAt(Tail(buffer), t)

\* the intervals that ended within the history kept at t, from the first on
RECURSIVE RecentAt(_, _)
RecentAt(intervals, t) ==
    IF intervals = << >> THEN << >>
    ELSE (IF Head(intervals).end > t - HistorySeconds THEN <<Head(intervals)>> ELSE << >>)
         \o RecentAt(Tail(intervals), t)

\* C36: after a cleanup at time t the active set holds no notice with
\* visibleUntil <= t, no buffer holds an entry with visibleUntil <= t and
\* the interval list holds no interval that ended at or before t - 24 h;
\* the active notices, buffer entries and intervals that are not over are
\* all kept, in their order; the pending queue and the delivery checkpoints
\* are as before.
C36_CleanupRemovesExactlyExpired ==
    [][Cleaned =>
          /\ \A id \in DOMAIN activeNotices' : activeNotices'[id].visibleUntil > wallClock
          /\ \A displayId \in DOMAIN displayBuffers' :
                \A i \in 1 .. Len(displayBuffers'[displayId]) :
                   displayBuffers'[displayId][i].visibleUntil > wallClock
          /\ \A i \in 1 .. Len(timeIntervals') :
                timeIntervals'[i].end > wallClock - HistorySeconds
          /\ DOMAIN activeNotices' =
                {id \in DOMAIN activeNotices : activeNotices[id].visibleUntil > wallClock}
          /\ \A id \in DOMAIN activeNotices' : activeNotices'[id] = activeNotices[id]
          /\ DOMAIN displayBuffers' = DOMAIN displayBuffers
          /\ \A displayId \in DOMAIN displayBuffers :
                displayBuffers'[displayId] =
                   NotOverAt(displayBuffers[displayId], wallClock)
          /\ timeIntervals' = RecentAt(timeIntervals, wallClock)
          /\ dispatchQueue' = dispatchQueue
          /\ deliveryCheckpoints' = deliveryCheckpoints]_vars

\* a day and ninety seconds after two notices were activated, a cleanup
\* has emptied the active set and the buffers and has dropped the interval
\* that ended exactly 24 h before, keeping the other and the checkpoints
C36_Witness ==
    /\ wallClock = NoticeA.visibleUntil + HistorySeconds
    /\ activeNotices = << >>
    /\ "web" \in DOMAIN displayBuffers
    /\ displayBuffers["web"] = << >>
    /\ Len(timeIntervals) = 1
    /\ timeIntervals[1].noticeId = NoticeE.noticeId
    /\ "u1" \in DOMAIN deliveryCheckpoints

\* the number of entries of the queue equal to the notice
CountIn(queue, notice) == Cardinality({i \in 1 .. Len(queue) : queue[i] = notice})

\* C33: when the full scan runs at time t, every pending notice with
\* visibleFrom <= t < visibleUntil is afterwards in the active set, has a
\* checkpoint with each of its audience ids, is in the buffer of each of
\* its channels and is no longer in the pending queue; the pending notices
\* outside their window are all still in the queue, and nothing else is.
C33_ScanActivatesExactlyDue ==
    [][Scanned =>
          /\ \A i \in 1 .. Len(dispatchQueue) :
                LET notice == dispatchQueue[i]
                IN  DueNow(notice) =>
                       /\ notice.noticeId \in DOMAIN activeNotices'
                       /\ \A targetId \in Range(notice.targetAudience) :
                             /\ targetId \in DOMAIN deliveryCheckpoints'
                             /\ findCheckpoint(deliveryCheckpoints'[targetId],
                                               notice.noticeId) # 0
                       /\ \A channel \in Range(notice.channels) :
                             /\ channel \in DOMAIN displayBuffers'
                             /\ notice \in Range(displayBuffers'[channel])
                       /\ notice \notin Range(dispatchQueue')
          /\ \A i \in 1 .. Len(dispatchQueue) :
                LET notice == dispatchQueue[i]
                IN  ~ DueNow(notice) =>
                       CountIn(dispatchQueue', notice) = CountIn(dispatchQueue, notice)
          /\ \A i \in 1 .. Len(dispatchQueue') :
                /\ dispatchQueue'[i] \in Range(dispatchQueue)
                /\ ~ DueNow(dispatchQueue'[i])]_vars

\* the notices of the last answer of the display route
Delivered ==
    IF traffic.answer.route = "display" THEN Range(traffic.answer.notices) ELSE {}

Without(i) == [k \in 1 .. (Len(handlers) - 1) |->
                  IF k < i THEN handlers[k] ELSE handlers[k + 1]]

\* the approve handlers that answer in the step
Answering ==
    {i \in 1 .. Len(handlers) :
        /\ handlers[i].route = "approve"
        /\ handlers' = Without(i)
        /\ traffic'.answer.route = "approve"
        /\ traffic'.answer.id = handlers[i].id}

\* the number of entries of the pending queue for the notice
QueuedFor(queue, noticeId) ==
    Cardinality({k \in 1 .. Len(queue) : queue[k].noticeId = noticeId})

====
